---- MODULE Spec2Model ----
(***************************************************************************)
(* Model of the pull-request automation scripts of shared-actions:         *)
(*   pr-review-checker.js   checkApproval, determineQAStatus               *)
(*   build-status-labeler.js updateBuildStatusLabel                        *)
(*   pr-status-labeler.js   updatePRStatusLabel                            *)
(*   pr-labeler (part_000)  analyzePRAndApplyLabels                        *)
(*   auto-merge-manager.js  manageAutoMerge                                *)
(* One pull request is modelled.  Every GitHub API call is one step, so    *)
(* that a call can fail and the handlers' error paths are exercised.       *)
(***************************************************************************)
EXTENDS Integers, Sequences, FiniteSets, TLC

(***************************************************************************)
(* Bounds of the model                                                     *)
(***************************************************************************)
\* longest review list returned by pulls.listReviews
MaxReviews == 2
\* largest number of labels on the pull request in an initial state
MaxInitLabels == 2
\* largest number of GitHub or Slack calls that fail in one behaviour
MaxFailures == 1
\* largest number of runs of analyzePRAndApplyLabels in one behaviour
MaxLabelerRuns == 1
\* largest number of reactions on the Slack message in an initial state
MaxInitReactions == 2
\* largest number of ensure-labels-exist operations in one behaviour
MaxEnsureRuns == 4

(***************************************************************************)
(* Values                                                                  *)
(***************************************************************************)
\* a JavaScript undefined / missing input
Undefined == "<undefined>"

\* JavaScript null
Null == "<null>"

\* obj[name] on an object literal that has no own property name: the
\* property inherited from Object.prototype (a function, or for "__proto__"
\* the prototype object itself, every one of them truthy), Undefined when
\* there is none
inheritedProperty(name) ==
    CASE name = "constructor" -> "<function Object>"
      [] name = "__proto__" -> "<Object.prototype>"
      [] name \in {"toString", "toLocaleString", "valueOf", "hasOwnProperty",
                   "isPrototypeOf", "propertyIsEnumerable",
                   "__defineGetter__", "__defineSetter__",
                   "__lookupGetter__", "__lookupSetter__"} ->
             "<function " \o name \o ">"
      [] OTHER -> Undefined

\* outcomes of the QA job as the workflow passes them, with two values the
\* table of the script does not name
QaResults == {"success", "failure", "cancelled", "skipped", "", Undefined,
              "neutral", "timed_out"}

SecretScanningResults == {"success", "failure", "skipped"}

QaStatuses == {"pending", "running", "success", "failed"}

QA_LABEL_NAMES == {"qa:pending", "qa:running", "qa:success", "qa:failed"}

STATUS_LABEL_NAMES == {"status:draft", "status:ready-for-review",
                       "status:approved", "status:mergeable",
                       "status:merged", "status:abandoned"}

\* conventional-commit type labels of LABEL_DEFINITIONS
TYPE_LABEL_NAMES == {"feat", "fix", "docs", "style", "refactor", "perf",
                     "test", "build", "ci", "revert", "chore"}

\* labels this system never manages
ForeignLabels == {"bug"}

\* JavaScript truthiness of a string-or-undefined input
Falsy(v) == v \in {"", Undefined}

(***************************************************************************)
(* pr-review-checker.js                                                    *)
(***************************************************************************)
\* the reviews kept by the filter of checkApproval (positions in the list)
approvalsAnyAuthor(reviewList, author) ==
    {i \in DOMAIN reviewList : reviewList[i].state = "APPROVED"}

approvals(reviewList, author) ==
    {i \in DOMAIN reviewList :
        /\ reviewList[i].state = "APPROVED"
        /\ reviewList[i].login # author}

checkApproval(reviewList, author) == approvals(reviewList, author) # {}

\* review-event path: the status is read back from the labels of the PR
qaStatusFromLabelsNoRunning(labelNames) ==
    IF "qa:success" \in labelNames THEN "success"
    ELSE IF "qa:failed" \in labelNames THEN "failed"
    ELSE IF "qa:pending" \in labelNames THEN "pending"
    ELSE "pending"

qaStatusFromLabels(labelNames) ==
    IF "qa:success" \in labelNames THEN "success"
    ELSE IF "qa:failed" \in labelNames THEN "failed"
    ELSE IF "qa:running" \in labelNames THEN "running"
    ELSE IF "qa:pending" \in labelNames THEN "pending"
    ELSE "pending"

\* PR-event path: the status is derived from the job results
qaStatusFromJobsBlocking(qaResult, secretScanningResult) ==
    IF qaResult = "success"
    THEN (IF secretScanningResult = "failure" THEN "failed" ELSE "success")
    ELSE IF qaResult = "failure" \/ qaResult = "cancelled" THEN "failed"
    ELSE IF qaResult = "skipped" \/ Falsy(qaResult) THEN "pending"
    ELSE "failed"

qaStatusFromJobs(qaResult, secretScanningResult) ==
    IF qaResult = "success" THEN "success"
    ELSE IF qaResult = "failure" \/ qaResult = "cancelled" THEN "failed"
    ELSE IF qaResult = "skipped" \/ Falsy(qaResult) THEN "pending"
    ELSE "failed"

determineQAStatus(eventName, qaResult, secretScanningResult, labelNames) ==
    IF eventName = "pull_request_review"
    THEN qaStatusFromLabels(labelNames)
    ELSE qaStatusFromJobs(qaResult, secretScanningResult)

(***************************************************************************)
(* build-status-labeler.js and pr-status-labeler.js: the pure parts        *)
(***************************************************************************)
\* workflowStatus values handed to updateBuildStatusLabel: the outcomes of a
\* job, the statuses of determineQAStatus and an empty input
WorkflowStatuses == {"pending", "running", "success", "failure", "cancelled",
                     "failed", ""}

\* the switch of updateBuildStatusLabel; "" when no case matches
buildDesiredLabel(workflowStatus) ==
    CASE workflowStatus = "pending" -> "qa:pending"
      [] workflowStatus = "running" -> "qa:running"
      [] workflowStatus = "success" -> "qa:success"
      [] workflowStatus \in {"failure", "cancelled"} -> "qa:failed"
      [] OTHER -> ""

\* the if-chain of updatePRStatusLabel
statusLabelDraftLast(isDraft, hasApproval, qaStatus, isMerged, isAbandoned) ==
    IF isMerged THEN "status:merged"
    ELSE IF isAbandoned THEN "status:abandoned"
    ELSE IF hasApproval /\ qaStatus = "success" THEN "status:mergeable"
    ELSE IF hasApproval THEN "status:approved"
    ELSE IF isDraft THEN "status:draft"
    ELSE "status:ready-for-review"

statusDesiredLabel(isDraft, hasApproval, qaStatus, isMerged, isAbandoned) ==
    IF isMerged THEN "status:merged"
    ELSE IF isAbandoned THEN "status:abandoned"
    ELSE IF isDraft THEN "status:draft"
    ELSE IF hasApproval /\ qaStatus = "success" THEN "status:mergeable"
    ELSE IF hasApproval THEN "status:approved"
    ELSE "status:ready-for-review"

\* currentLabelNames.filter((l) => NAMES.includes(l))
currentGroupLabelsUnfiltered(currentLabelNames, groupNames) ==
    currentLabelNames

currentGroupLabels(currentLabelNames, groupNames) ==
    currentLabelNames \cap groupNames

\* current.length === 1 && current[0] === desiredLabel
alreadyCorrect(current, desiredLabel) == current = {desiredLabel}

\* current.filter((l) => l !== desiredLabel)
labelsToRemoveNoFilter(current, desiredLabel) == current

labelsToRemoveInverted(current, desiredLabel) == current \cap {desiredLabel}

labelsToRemove(current, desiredLabel) == current \ {desiredLabel}

\* !current.includes(desiredLabel)
needsToAdd(current, desiredLabel) == desiredLabel \notin current

(***************************************************************************)
(* pr-labeler: title and body analysis of analyzePRAndApplyLabels.         *)
(* A title or body is a sequence of one-character strings.                 *)
(***************************************************************************)
\* the words of the patterns: the type words of lines 171 and 187, chore and
\* the literal "(deps):" of line 165, the body marker of line 190
W == [feat |-> <<"f", "e", "a", "t">>,
      fix |-> <<"f", "i", "x">>,
      docs |-> <<"d", "o", "c", "s">>,
      style |-> <<"s", "t", "y", "l", "e">>,
      refactor |-> <<"r", "e", "f", "a", "c", "t", "o", "r">>,
      perf |-> <<"p", "e", "r", "f">>,
      test |-> <<"t", "e", "s", "t">>,
      build |-> <<"b", "u", "i", "l", "d">>,
      ci |-> <<"c", "i">>,
      revert |-> <<"r", "e", "v", "e", "r", "t">>,
      chore |-> <<"c", "h", "o", "r", "e">>,
      deps |-> <<"(", "d", "e", "p", "s", ")", ":">>,
      breaking |-> <<"B", "R", "E", "A", "K", "I", "N", "G", " ",
                     "C", "H", "A", "N", "G", "E", ":">>,
      sp |-> <<" ">>]

\* the alternation (feat|fix|...|revert) of the two type patterns, in order
TypeWords == <<[w |-> W.feat, name |-> "feat"],
               [w |-> W.fix, name |-> "fix"],
               [w |-> W.docs, name |-> "docs"],
               [w |-> W.style, name |-> "style"],
               [w |-> W.refactor, name |-> "refactor"],
               [w |-> W.perf, name |-> "perf"],
               [w |-> W.test, name |-> "test"],
               [w |-> W.build, name |-> "build"],
               [w |-> W.ci, name |-> "ci"],
               [w |-> W.revert, name |-> "revert"]>>

\* s has the word w at position p (1-based)
HasAt(s, p, w) ==
    /\ p >= 1
    /\ p + Len(w) - 1 <= Len(s)
    /\ \A i \in 1..Len(w) : s[p + i - 1] = w[i]

\* String.prototype.includes
Includes(s, w) == \E p \in 1..(Len(s) + 1) : HasAt(s, p, w)

matchesDepsChoreOnly(title) ==
    HasAt(title, 1, W.chore) /\ HasAt(title, Len(W.chore) + 1, W.deps)

\* /^(chore|fix|build)\(deps\):/
matchesDeps(title) ==
    \E w \in {W.chore, W.fix, W.build} :
        /\ HasAt(title, 1, w)
        /\ HasAt(title, Len(w) + 1, W.deps)

\* the rest of a type pattern after the type word: (\(.+\))? then tail, where
\* tail is ":" or "!:"; p is the position after the type word.  "." matches
\* any character but the four line terminators of the language: line feed,
\* carriage return, line separator U+2028 and paragraph separator U+2029
\* (the last two written here as the one-character tokens "<U+2028>" and
\* "<U+2029>").
matchesScopeThen(title, p, tail) ==
    \/ HasAt(title, p, tail)
    \/ /\ HasAt(title, p, <<"(">>)
       /\ \E q \in (p + 2)..Len(title) :
            /\ title[q] = ")"
            /\ \A i \in (p + 1)..(q - 1) :
                 title[i] \notin {"\n", "\r", "<U+2028>", "<U+2029>"}
            /\ HasAt(title, q + 1, tail)

\* indexes of TypeWords for which the whole pattern matches
typeMatches(title, tail) ==
    {k \in DOMAIN TypeWords :
        /\ HasAt(title, 1, TypeWords[k].w)
        /\ matchesScopeThen(title, Len(TypeWords[k].w) + 1, tail)}

\* typeMatch[1] of /^(feat|...|revert)(\(.+\))?:/, or "" without a match:
\* the regex engine takes the first alternative that leads to a match
typeOfTitle(title) ==
    LET ks == typeMatches(title, <<":">>)
    IN IF ks = {} THEN ""
       ELSE TypeWords[CHOOSE k \in ks : \A j \in ks : k <= j].name

\* /^(feat|...|revert)(\(.+\))?!:/ or the body marker
isBreaking(title, body) ==
    \/ typeMatches(title, <<"!", ":">>) # {}
    \/ Includes(body, W.breaking)

titleLabelsNoDefault(title, body) ==
    (IF matchesDeps(title) THEN <<"dependencies">>
     ELSE IF typeOfTitle(title) # "" THEN <<typeOfTitle(title)>>
     ELSE <<>>)
    \o (IF isBreaking(title, body) THEN <<"breaking">> ELSE <<>>)

\* labelsToAdd before the draft check, in push order
titleLabels(title, body) ==
    (IF matchesDeps(title) THEN <<"dependencies">>
     ELSE IF typeOfTitle(title) # "" THEN <<typeOfTitle(title)>>
     ELSE <<"chore">>)
    \o (IF isBreaking(title, body) THEN <<"breaking">> ELSE <<>>)

\* the label pushed for pr.draft
draftLabel(draft) ==
    IF draft THEN "status:draft" ELSE "status:ready-for-review"

Range(s) == {s[i] : i \in DOMAIN s}

(***************************************************************************)
(* build-status-labeler.js, Slack notifier: the reactions of a label set   *)
(***************************************************************************)
\* statusReactions[name]: the emoji of a label; without an entry of that
\* name, what the object literal inherits under it, or Undefined
statusReactions(name) ==
    CASE name = "qa:pending" -> "hourglass_flowing_sand"
      [] name = "qa:running" -> "runner"
      [] name = "qa:success" -> "white_check_mark"
      [] name = "qa:failed" -> "x"
      [] name = "status:ready-for-review" -> "eyes"
      [] name = "status:approved" -> "thumbsup"
      [] name = "status:mergeable" -> "rocket"
      [] OTHER -> inheritedProperty(name)

\* the keys of statusReactions
ReactionLabelNames == {"qa:pending", "qa:running", "qa:success", "qa:failed",
                       "status:ready-for-review", "status:approved",
                       "status:mergeable"}

\* the keys of exclusiveGroups, in the order of Object.entries
GroupNames == <<"qa", "status">>

exclusiveGroups(groupName) ==
    IF groupName = "qa"
    THEN <<"hourglass_flowing_sand", "runner", "white_check_mark", "x">>
    ELSE <<"eyes", "thumbsup", "rocket">>

\* new Set(Object.values(statusReactions))
allStatusReactions == {statusReactions(n) : n \in ReactionLabelNames}

groupPriorityPendingFirst(groupName) ==
    IF groupName = "qa"
    THEN <<"qa:pending", "qa:running", "qa:success", "qa:failed">>
    ELSE <<"status:merged", "status:ready-for-review", "status:approved",
           "status:mergeable">>

groupPrioritySuccessFirst(groupName) ==
    IF groupName = "qa"
    THEN <<"qa:success", "qa:failed", "qa:running", "qa:pending">>
    ELSE <<"status:merged", "status:mergeable", "status:approved",
           "status:ready-for-review">>

groupPriority(groupName) ==
    IF groupName = "qa"
    THEN <<"qa:failed", "qa:success", "qa:running", "qa:pending">>
    ELSE <<"status:merged", "status:mergeable", "status:approved",
           "status:ready-for-review">>

reactionsMergedLabelOnly(labelNames, isPRMerged) ==
    "status:merged" \in labelNames

\* isMerged of calculateDesiredReactions
reactionsMerged(labelNames, isPRMerged) ==
    "status:merged" \in labelNames \/ isPRMerged

\* mappedReactions; only membership in it is ever asked
mappedReactions(labelNames) ==
    {statusReactions(n) : n \in {m \in labelNames :
                                    statusReactions(m) # Undefined}}

\* selectedReaction of a group: the emoji of the first label of the
\* priority order that is on the PR and has an emoji, Null without one
selectedReaction(labelNames, groupName) ==
    LET order == groupPriority(groupName)
        hits == {k \in DOMAIN order :
                    /\ order[k] \in labelNames
                    /\ statusReactions(order[k]) # Undefined}
    IN IF hits = {} THEN Null
       ELSE statusReactions(order[CHOOSE k \in hits : \A j \in hits : k <= j])

\* what one group pushes on finalReactions
groupReactions(labelNames, groupName) ==
    LET selected == selectedReaction(labelNames, groupName)
    IN IF selected # Null /\ selected \in mappedReactions(labelNames)
       THEN <<selected>>
       ELSE <<>>

\* finalReactions after the loop over the groups
finalReactions(labelNames) ==
    groupReactions(labelNames, GroupNames[1])
        \o groupReactions(labelNames, GroupNames[2])

hasQaInProgressRunningOnly(labelNames) == "qa:running" \in labelNames

hasQaInProgress(labelNames) ==
    "qa:running" \in labelNames \/ "qa:pending" \in labelNames

\* finalReactions.filter((r) => exclusiveGroups.qa.includes(r))
onlyQaReactions(reactions) ==
    LET InQa(r) == r \in Range(exclusiveGroups("qa"))
    IN SelectSeq(reactions, InQa)

\* calculateDesiredReactions: labelNames are the names of its labels
calculateDesiredReactions(labelNames, isPRMerged) ==
    IF reactionsMerged(labelNames, isPRMerged) THEN <<>>
    ELSE IF hasQaInProgress(labelNames)
         THEN onlyQaReactions(finalReactions(labelNames))
         ELSE finalReactions(labelNames)

(***************************************************************************)
(* The label tables of the three scripts and the ensure-labels-exist       *)
(* operations: ensureLabelsExist of build-status-labeler.js and of the PR  *)
(* labeler, ensureStatusLabelsExist of pr-status-labeler.js                *)
(***************************************************************************)
QA_LABELS_OtherPending ==
    <<[name |-> "qa:pending", color |-> "FFFFFF",
      description |-> "QA workflow needs to run"],
      [name |-> "qa:running", color |-> "FFA500",
      description |-> "QA workflow is currently running"],
      [name |-> "qa:success", color |-> "22863A",
      description |-> "QA workflow passed successfully"],
      [name |-> "qa:failed", color |-> "CB2431",
      description |-> "QA workflow failed"]>>

QA_LABELS ==
    <<[name |-> "qa:pending", color |-> "CEE0F5",
      description |-> "QA workflow needs to run"],
      [name |-> "qa:running", color |-> "FFA500",
      description |-> "QA workflow is currently running"],
      [name |-> "qa:success", color |-> "22863A",
      description |-> "QA workflow passed successfully"],
      [name |-> "qa:failed", color |-> "CB2431",
      description |-> "QA workflow failed"]>>

STATUS_LABELS ==
    <<[name |-> "status:draft", color |-> "848484",
      description |-> "Pull request is in draft status"],
      [name |-> "status:ready-for-review", color |-> "FBCA04",
      description |-> "Pull request is ready for review"],
      [name |-> "status:approved", color |-> "28A745",
      description |-> "Pull request has been approved"],
      [name |-> "status:mergeable", color |-> "0E8A16",
      description |-> "Pull request is approved, tests pass, and ready to merge"],
      [name |-> "status:merged", color |-> "6F42C1",
      description |-> "Pull request has been merged"],
      [name |-> "status:abandoned", color |-> "C0C0C0",
      description |-> "Pull request was closed without merging"]>>

\* Object.entries(LABEL_DEFINITIONS), in insertion order
LABEL_DEFINITIONS ==
    <<[name |-> "feat", color |-> "0E8A16",
      description |-> "New feature"],
      [name |-> "fix", color |-> "B60205",
      description |-> "Bug fix"],
      [name |-> "docs", color |-> "0075CA",
      description |-> "Documentation changes"],
      [name |-> "style", color |-> "C5DEF5",
      description |-> "Code style changes (formatting, etc)"],
      [name |-> "refactor", color |-> "FBF2C4",
      description |-> "Code refactoring"],
      [name |-> "perf", color |-> "FF6B6B",
      description |-> "Performance improvements"],
      [name |-> "test", color |-> "795AA0",
      description |-> "Test additions or modifications"],
      [name |-> "build", color |-> "727272",
      description |-> "Build system changes"],
      [name |-> "ci", color |-> "4A5568",
      description |-> "CI/CD configuration changes"],
      [name |-> "revert", color |-> "CF222E",
      description |-> "Revert previous commits"],
      [name |-> "chore", color |-> "F9C0C7",
      description |-> "Maintenance tasks"],
      [name |-> "dependencies", color |-> "FF9500",
      description |-> "Dependency updates"],
      [name |-> "breaking", color |-> "D93F0B",
      description |-> "Breaking changes"],
      [name |-> "status:draft", color |-> "848484",
      description |-> "Pull request is in draft status"],
      [name |-> "status:ready-for-review", color |-> "FBCA04",
      description |-> "Pull request is ready for review"],
      [name |-> "status:approved", color |-> "28A745",
      description |-> "Pull request has been approved"],
      [name |-> "status:mergeable", color |-> "0E8A16",
      description |-> "Pull request is approved, tests pass, and ready to merge"],
      [name |-> "status:merged", color |-> "6F42C1",
      description |-> "Pull request has been merged"],
      [name |-> "qa:pending", color |-> "CEE0F5",
      description |-> "QA workflow needs to run"],
      [name |-> "qa:running", color |-> "FFA500",
      description |-> "QA workflow is currently running"],
      [name |-> "qa:success", color |-> "22863A",
      description |-> "QA workflow passed successfully"],
      [name |-> "qa:failed", color |-> "CB2431",
      description |-> "QA workflow failed"]>>

labelCallColorOnly(existingLabels, label) ==
    IF \A l \in existingLabels : l.name # label.name
    THEN "issues.createLabel"
    ELSE LET existingLabel == CHOOSE l \in existingLabels :
                                  l.name = label.name
         IN IF existingLabel.color # label.color
            THEN "issues.updateLabel"
            ELSE "none"

\* the call one pass of the loop makes for a label of the table, given the
\* answer of issues.listLabelsForRepo; "none" when it makes no call
labelCall(existingLabels, label) ==
    IF \A l \in existingLabels : l.name # label.name
    THEN "issues.createLabel"
    ELSE LET existingLabel == CHOOSE l \in existingLabels :
                                  l.name = label.name
         IN IF \/ existingLabel.color # label.color
               \/ existingLabel.description # label.description
            THEN "issues.updateLabel"
            ELSE "none"

\* the first index from idx on at which the loop makes a call, or
\* Len(table) + 1 when it makes no further call
nextCall(existingLabels, table, idx) ==
    LET S == {k \in idx..Len(table) :
                 labelCall(existingLabels, table[k]) # "none"}
    IN IF S = {} THEN Len(table) + 1
       ELSE CHOOSE k \in S : \A j \in S : k <= j

(***************************************************************************)
(* Inputs of the handlers                                                  *)
(***************************************************************************)
Titles == {W.feat \o <<":">> \o W.sp \o <<"x">>,
           W.fix \o <<"(", "a", ")", ":">> \o W.sp \o <<"y">>,
           W.chore \o W.deps \o W.sp \o <<"z">>,
           W.feat \o <<"!", ":">> \o W.sp \o <<"n">>,
           W.docs \o W.sp \o <<"d">>,
           W.chore \o <<":">> \o W.sp \o <<"c">>}

Bodies == {<<>>, <<"x">> \o W.sp \o W.breaking \o W.sp \o <<"y">>}

StatusInputs == [isDraft : BOOLEAN, hasApproval : BOOLEAN,
                 qaStatus : QaStatuses, isMerged : BOOLEAN,
                 isAbandoned : BOOLEAN]

AtMostOne(S) == Cardinality(S) <= 1

AtMostOnePerEnumeration(S) ==
    /\ AtMostOne(S \cap QA_LABEL_NAMES)
    /\ AtMostOne(S \cap STATUS_LABEL_NAMES)
    /\ AtMostOne(S \cap TYPE_LABEL_NAMES)

(***************************************************************************)
(* State                                                                   *)
(***************************************************************************)
VARIABLES
    res,        \* the last result of a pure computation, with its inputs
    labels,     \* names of the labels on the pull request
    inv,        \* the running or last invocation of a label handler
    hist,       \* what has happened to the labels since the initial state
    calls,      \* GitHub API calls issued by the current invocation, in order
    autoMerge,  \* whether auto-merge is enabled on the pull request
    am,         \* the running or last invocation of manageAutoMerge
    env,        \* environment of the Slack notifier and state of the PR
    comments,   \* the issue comments of the pull request
    slack,      \* the Slack channel: messages posted and their reactions
    np,         \* the invocations of the Slack notifier, one per process
    repo,       \* the labels defined in the repository
    ens,        \* the running or last ensure-labels-exist operation
    sched       \* the label reconciler that is suspended while inv runs

vars == <<res, labels, inv, hist, calls, autoMerge, am, env, comments, slack,
          np, repo, ens, sched>>

NoRes == [fn |-> "none"]

\* input: the workflowStatus of updateBuildStatusLabel (the other handlers
\* read their inputs only to compute desired / toAdd, which are kept);
\* repeat: the invocation repeats the one before it, see MayStart;
\* outside: the labels outside the managed enumeration when the handler began
NoInv == [op |-> "none", pc |-> "idle", input |-> "", desired |-> "",
          toRemove |-> {}, add |-> FALSE, toAdd |-> <<>>, outside |-> {},
          failed |-> FALSE, outcome |-> "none", repeat |-> FALSE]

NoHist == [startOk |-> TRUE, failures |-> 0, labelerRuns |-> 0]

NoAm == [pc |-> "idle", input |-> <<>>, outcome |-> "none", log |-> "none",
         getFailed |-> FALSE]

Call(api, arg) == [api |-> api, arg |-> arg]

\* table: the label table of the operation; existing: the answer of
\* issues.listLabelsForRepo; idx: the index in the table of the next call;
\* calls: the calls made, with the label concerned and whether it succeeded;
\* ensured: the tables of the operations that have run with every call
\* successful
NoEns == [pc |-> "idle", table |-> <<>>, existing |-> {}, idx |-> 1,
          calls |-> <<>>, outcome |-> "none", runs |-> 0, ensured |-> {}]

\* other, otherCalls: the suspended reconciler and its calls; me: the
\* reconciler that inv belongs to; mark: the number of calls inv had made
\* when it was resumed; lastWriter: the last reconciler that issued a label
\* write, as of the last switch
NoSched == [other |-> NoInv, otherCalls |-> <<>>, me |-> 1, mark |-> 0,
            lastWriter |-> 0]

\* every label of the three tables is defined in the repository as the
\* tables have it, next to a label the scripts do not know
CanonicalRepo ==
    Range(QA_LABELS) \cup Range(STATUS_LABELS) \cup Range(LABEL_DEFINITIONS)
    \cup {[name |-> "bug", color |-> "d73a4a",
           description |-> "Something isn't working"]}

\* no ensure operation and no second reconciler
MoreOff ==
    /\ repo = CanonicalRepo
    /\ ens = NoEns
    /\ sched = NoSched

\* number of label writes among the calls of the current invocation
WriteCalls ==
    Cardinality({i \in DOMAIN calls :
                    calls[i].api \in {"issues.removeLabel",
                                      "issues.addLabels"}})

(***************************************************************************)
(* Slack notifier (second module of build-status-labeler.js): values       *)
(***************************************************************************)
\* the processes that may run the notifier for the same pull request
Notifiers == {"n1", "n2"}

\* ts of a message posted before the first invocation
ExistingTs == "1.1"

\* the ts Slack gives to the messages posted by chat.postMessage, in order
NewTs == <<"2.1", "2.2">>

\* comment bodies by what the notifier reads of them: whether the body holds
\* the text "<!-- slack-ts:" and what /<!-- slack-ts:([0-9.]+) -->/ captures
LockBody == [text |-> "<!-- slack-creating-lock -->", ts |-> Null]

\* commentBody of lines 877-880, for a ts made of digits and dots
markerBody(ts) == [text |-> "<!-- slack-ts:", ts |-> ts]

\* c.body.includes("<!-- slack-ts:")
includesMarker(body) == body.text = "<!-- slack-ts:"

\* match[1] of body.match(/<!-- slack-ts:([0-9.]+) -->/), Null without match
matchTs(body) == IF includesMarker(body) THEN body.ts ELSE Null

\* comments.find: the first comment with the marker text whose id is not
\* excludeId, as a set of at most one comment
findMarker(list, excludeId) ==
    LET hits == {k \in DOMAIN list : /\ includesMarker(list[k].body)
                                      /\ list[k].id # excludeId}
    IN IF hits = {} THEN {}
       ELSE {list[CHOOSE k \in hits : \A j \in hits : k <= j]}

\* slackTs after the first look at the comments (lines 348-359)
foundTs(list) ==
    IF findMarker(list, 0) = {} THEN Null
    ELSE matchTs((CHOOSE c \in findMarker(list, 0) : TRUE).body)

skipsNotificationNoDraft(authorType, labelNames, isPRMerged, slackTs) ==
    \/ authorType = "Bot"
    \/ slackTs = Null /\ ("status:merged" \in labelNames \/ isPRMerged)

\* the three early returns of lines 361-386
skipsNotification(authorType, labelNames, isPRMerged, slackTs) ==
    \/ authorType = "Bot"
    \/ "status:draft" \in labelNames
    \/ slackTs = Null /\ ("status:merged" \in labelNames \/ isPRMerged)

\* which of the three renderings messageBlocks is (lines 565-739), and
\* whether it is the text-only fallback of sendMessage
messageBlocks(labelNames, isPRMerged, isAbandoned, fallback) ==
    LET kind == IF "status:merged" \in labelNames \/ isPRMerged
                THEN "merged"
                ELSE IF isAbandoned THEN "abandoned" ELSE "active"
    IN [kind |-> kind, fallback |-> fallback /\ kind = "active"]

\* statusLabels, priorityLabels and categoryLabels (lines 388-425)
statusTextTables ==
    [status |->
        <<[label |-> "status:draft", text |-> ":pencil2: Draft"],
          [label |-> "status:ready-for-review",
           text |-> ":mag: Ready for Review"],
          [label |-> "status:in-review", text |-> ":eyes: In Review"],
          [label |-> "qa:running",
           text |-> ":hourglass_flowing_sand: QA Running"],
          [label |-> "qa:failed", text |-> ":x: QA Failed"],
          [label |-> "qa:success", text |-> ":white_check_mark: QA Passed"],
          [label |-> "status:changes-requested",
           text |-> ":warning: Changes Requested"],
          [label |-> "status:approved",
           text |-> ":white_check_mark: Approved"],
          [label |-> "status:on-hold", text |-> ":pause_button: On Hold"],
          [label |-> "status:blocked", text |-> ":octagonal_sign: Blocked"],
          [label |-> "status:ready-to-merge",
           text |-> ":rocket: Ready to Merge"],
          [label |-> "status:merged", text |-> ":tada: Merged"]>>,
     priority |->
        <<[label |-> "priority:critical", text |-> ":rotating_light:"],
          [label |-> "priority:high", text |-> ":arrow_up:"],
          [label |-> "priority:medium", text |-> ":arrow_right:"],
          [label |-> "priority:low", text |-> ":arrow_down:"]>>,
     category |->
        <<[label |-> "type:bug", text |-> ":bug:"],
          [label |-> "type:feature", text |-> ":sparkles:"],
          [label |-> "type:refactor", text |-> ":recycle:"],
          [label |-> "type:test", text |-> ":test_tube:"],
          [label |-> "type:docs", text |-> ":books:"],
          [label |-> "type:chore", text |-> ":wrench:"],
          [label |-> "type:style", text |-> ":art:"],
          [label |-> "type:perf", text |-> ":zap:"],
          [label |-> "type:security", text |-> ":shield:"],
          [label |-> "type:breaking", text |-> ":boom:"]>>]

\* statusTexts (lines 427-442): the text of the first status entry and of
\* the first priority entry whose label is on the PR (find), then the
\* texts of all the category entries whose label is on the PR (filter)
statusTexts(labelNames) ==
    LET Active(e) == e.label \in labelNames
        texts(entries) == [i \in DOMAIN entries |-> entries[i].text]
        find(table) == LET hits == SelectSeq(table, Active)
                       IN IF hits = <<>> THEN <<>> ELSE <<Head(hits).text>>
    IN find(statusTextTables.status) \o find(statusTextTables.priority)
         \o texts(SelectSeq(statusTextTables.category, Active))

\* data.error values of a Slack answer, and messages of exceptions of fetch
FatalSlackErrors == {"missing_scope", "not_in_channel", "channel_not_found"}

SlackErrors == FatalSlackErrors \cup
    {"rate_limited", "not_authed", "invalid_blocks", "no_reaction",
     "already_reacted", "internal_error", "fetch failed", "ECONNRESET",
     "Unexpected token"}

retryableNever(error) == FALSE

retryableAlways(error) == TRUE

\* slackApi tries again after this error unless it was the last attempt
retryable(error) == error \notin FatalSlackErrors \cup {"Unexpected token"}

\* maxRetries of slackApi and of sendMessage
slackApiMaxRetries == 3

sendMessageMaxRetries == 2

\* error.message.includes(word): a data.error e is thrown as
\* "Slack API error: e", an exception with its own message
messageIncludes(error, word) == error = word

notifierCatchRethrow(error) == "raised"

notifierCatchSwallow(error) == "returned"

\* the catch of the notifier (lines 918-936)
notifierCatch(error) ==
    IF messageIncludes(error, "not_authed") THEN "returned" ELSE "raised"

managedReactionsUnfiltered(current) == current

\* currentReactions.filter((r) => allStatusReactions.has(r)), also of
\* actualReactions in verifySanity
managedReactions(current) == current \cap allStatusReactions

\* desiredReactions.sort(): the default order of Array.prototype.sort
sortReactions(reactions) ==
    LET Wanted(e) == e \in Range(reactions)
    IN SelectSeq(<<"eyes", "hourglass_flowing_sand", "rocket", "runner",
                   "thumbsup", "white_check_mark", "x">>, Wanted)

calculateDeltaAddAll(current, desired) ==
    [add |-> desired, remove |-> current \ Range(desired)]

\* calculateDelta(current, desired) for a set of current names
calculateDelta(current, desired) ==
    LET Missing(e) == e \notin current
    IN [add |-> SelectSeq(desired, Missing),
        remove |-> current \ Range(desired)]

NoEnv == [token |-> FALSE, channel |-> FALSE, authorType |-> "User",
          isAbandoned |-> FALSE, merged |-> FALSE]

NoComments == [list |-> <<>>, nextId |-> 1]

\* posted: the ts of the messages created by chat.postMessage, in order;
\* content: the blocks of each message, of kind "none" for a ts without
\* one; reactions: who has put which emoji on which message; rejects:
\* whether Slack answers invalid_blocks to the blocks of this pull request
\* (the fallback blocks of an active pull request are never rejected)
NoSlack == [posted |-> <<>>,
            content |-> [t \in {ExistingTs} \cup Range(NewTs) |->
                            [kind |-> "none", fallback |-> FALSE]],
            reactions |-> {}, rejects |-> FALSE]

\* foundTs is Undefined until the comments have been read, then what was
\* found in them; caught is the error that reached the catch of the notifier
NoNp == [pc |-> "idle", outcome |-> "none", caught |-> Null, labels |-> {},
         isPRMerged |-> FALSE, slackTs |-> Null, foundTs |-> Undefined,
         lockId |-> 0, pendingTs |-> Null, attempt |-> 0, retryCount |-> 0,
         fallback |-> FALSE, desired |-> <<>>, toRemove |-> {},
         toAdd |-> <<>>, cur |-> Null, changesMade |-> 0, errors |-> 0,
         calls |-> {}]

\* no notifier has been invoked and nothing of its world exists
NotifierOff ==
    /\ env = NoEnv
    /\ comments = NoComments
    /\ slack = NoSlack
    /\ np = [p \in Notifiers |-> NoNp]

(***************************************************************************)
(* GitHub: the effect of a successful call on the labels of the PR         *)
(***************************************************************************)
removeLabelEffect(current, name) == current \ {name}

addLabelsEffect(current, names) == current \cup Range(names)

(***************************************************************************)
(* Label handlers: updateBuildStatusLabel, updatePRStatusLabel and         *)
(* analyzePRAndApplyLabels, one step per GitHub call                       *)
(***************************************************************************)
\* a GitHub call may still fail in this behaviour
MayFail == hist.failures < MaxFailures

\* the enumeration a reconciler manages
GroupOf(op) == IF op = "qa" THEN QA_LABEL_NAMES ELSE STATUS_LABEL_NAMES

\* the handler op may start: either no handler is running, or the last
\* invocation was of op, has just returned with every call successful, and
\* is now invoked again at once with the same inputs (again is TRUE)
MayStart(op, again) ==
    IF again
    THEN inv.pc = "done" /\ inv.op = op /\ inv.outcome = "returned"
         /\ ~inv.failed
    ELSE inv.pc = "idle"

\* the record of an invocation that has ended
Ended(i, outcome) == [i EXCEPT !.pc = "done", !.outcome = outcome]

Failed(i) == [i EXCEPT !.failed = TRUE]

OneMoreFailure == [hist EXCEPT !.failures = hist.failures + 1]

\* updateBuildStatusLabel up to the read of the labels (lines 107-140)
StartQA(workflowStatus, again) ==
    /\ MayStart("qa", again)
    /\ again => workflowStatus = inv.input
    /\ LET desired == buildDesiredLabel(workflowStatus)
           i == [NoInv EXCEPT !.op = "qa",
                              !.input = workflowStatus,
                              !.desired = desired,
                              !.outside = labels \ QA_LABEL_NAMES,
                              !.repeat = again]
       IN inv' = IF desired = "" THEN Ended(i, "returned")
                 ELSE [i EXCEPT !.pc = "list"]
    /\ calls' = <<>>
    /\ UNCHANGED <<labels, hist, res, autoMerge, am, env, comments, slack, np,
                   repo, ens, sched>>

\* updatePRStatusLabel up to the read of the labels (lines 135-173)
StartStatus(input, again) ==
    /\ MayStart("status", again)
    /\ LET desired == statusDesiredLabel(input.isDraft, input.hasApproval,
                          input.qaStatus, input.isMerged, input.isAbandoned)
       IN /\ again => desired = inv.desired
          /\ inv' = [NoInv EXCEPT !.op = "status",
                               !.pc = "list",
                               !.desired = desired,
                               !.outside = labels \ STATUS_LABEL_NAMES,
                               !.repeat = again]
    /\ calls' = <<>>
    /\ UNCHANGED <<labels, hist, res, autoMerge, am, env, comments, slack, np,
                   repo, ens, sched>>

\* issues.listLabelsOnIssue succeeds; the delta is computed from its answer
ListLabelsOk ==
    /\ inv.pc = "list"
    /\ calls' = Append(calls, Call("issues.listLabelsOnIssue", ""))
    /\ LET current == currentGroupLabels(labels, GroupOf(inv.op))
           rem == labelsToRemove(current, inv.desired)
           add == needsToAdd(current, inv.desired)
           i == [inv EXCEPT !.toRemove = rem, !.add = add]
       IN inv' = IF alreadyCorrect(current, inv.desired) \/ (rem = {} /\ ~add)
                 THEN Ended(inv, "returned")
                 ELSE [i EXCEPT !.pc = IF rem # {} THEN "remove" ELSE "add"]
    /\ UNCHANGED <<labels, hist, res, autoMerge, am, env, comments, slack, np,
                   repo, ens, sched>>

\* issues.listLabelsOnIssue fails: nothing catches it, the handler raises
ListLabelsFail ==
    /\ inv.pc = "list"
    /\ MayFail
    /\ calls' = Append(calls, Call("issues.listLabelsOnIssue", ""))
    /\ inv' = Ended(Failed(inv), "raised")
    /\ hist' = OneMoreFailure
    /\ UNCHANGED <<labels, res, autoMerge, am, env, comments, slack, np, repo,
                   ens, sched>>

AfterRemoveAbort(i) ==
    IF i.failed THEN Ended(i, "returned")
    ELSE IF i.toRemove # {} THEN i
    ELSE IF i.add THEN [i EXCEPT !.pc = "add"]
    ELSE Ended(i, "returned")

\* where the handler stands after one pass of the removal loop
AfterRemove(i) ==
    IF i.toRemove # {} THEN i
    ELSE IF i.add THEN [i EXCEPT !.pc = "add"]
    ELSE Ended(i, "returned")

\* issues.removeLabel for one outdated label, in any order of the list;
\* GitHub removes a label that is on the issue
RemoveLabelOk(name) ==
    /\ inv.pc = "remove"
    /\ name \in inv.toRemove
    /\ name \in labels
    /\ calls' = Append(calls, Call("issues.removeLabel", name))
    /\ labels' = removeLabelEffect(labels, name)
    /\ inv' = AfterRemove([inv EXCEPT !.toRemove = inv.toRemove \ {name}])
    /\ UNCHANGED <<hist, res, autoMerge, am, env, comments, slack, np, repo,
                   ens, sched>>

\* a failed removal is caught and logged, the loop goes on
RemoveLabelFail(name) ==
    /\ inv.pc = "remove"
    /\ name \in inv.toRemove
    /\ MayFail
    /\ calls' = Append(calls, Call("issues.removeLabel", name))
    /\ inv' = AfterRemove(Failed([inv EXCEPT
                                     !.toRemove = inv.toRemove \ {name}]))
    /\ hist' = OneMoreFailure
    /\ UNCHANGED <<labels, res, autoMerge, am, env, comments, slack, np, repo,
                   ens, sched>>

\* issues.addLabels for the desired label
AddLabelOk ==
    /\ inv.pc = "add"
    /\ calls' = Append(calls, Call("issues.addLabels", <<inv.desired>>))
    /\ labels' = addLabelsEffect(labels, <<inv.desired>>)
    /\ inv' = Ended(inv, "returned")
    /\ UNCHANGED <<hist, res, autoMerge, am, env, comments, slack, np, repo,
                   ens, sched>>

\* a failed add is caught and logged
AddLabelFail ==
    /\ inv.pc = "add"
    /\ MayFail
    /\ calls' = Append(calls, Call("issues.addLabels", <<inv.desired>>))
    /\ inv' = Ended(Failed(inv), "returned")
    /\ hist' = OneMoreFailure
    /\ UNCHANGED <<labels, res, autoMerge, am, env, comments, slack, np, repo,
                   ens, sched>>

\* analyzePRAndApplyLabels up to pulls.get (lines 153-196)
StartLabeler(title, body) ==
    /\ inv.pc = "idle"
    /\ hist.labelerRuns < MaxLabelerRuns
    /\ inv' = [NoInv EXCEPT !.op = "labeler",
                            !.pc = "get",
                            !.toAdd = titleLabels(title, body)]
    /\ hist' = [hist EXCEPT !.labelerRuns = hist.labelerRuns + 1]
    /\ calls' = <<>>
    /\ UNCHANGED <<labels, res, autoMerge, am, env, comments, slack, np, repo,
                   ens, sched>>

\* pulls.get answers with the draft flag of the pull request
PullsGetOk(draft) ==
    /\ inv.pc = "get"
    /\ calls' = Append(calls, Call("pulls.get", ""))
    /\ inv' = [inv EXCEPT !.pc = "addAll",
                          !.toAdd = inv.toAdd \o <<draftLabel(draft)>>]
    /\ UNCHANGED <<labels, hist, res, autoMerge, am, env, comments, slack, np,
                   repo, ens, sched>>

\* pulls.get fails: nothing catches it, the handler raises
PullsGetFail ==
    /\ inv.pc = "get"
    /\ MayFail
    /\ calls' = Append(calls, Call("pulls.get", ""))
    /\ inv' = Ended(Failed(inv), "raised")
    /\ hist' = OneMoreFailure
    /\ UNCHANGED <<labels, res, autoMerge, am, env, comments, slack, np, repo,
                   ens, sched>>

\* the single batched issues.addLabels of the labeler
AddLabelsOk ==
    /\ inv.pc = "addAll"
    /\ calls' = Append(calls, Call("issues.addLabels", inv.toAdd))
    /\ labels' = addLabelsEffect(labels, inv.toAdd)
    /\ inv' = Ended(inv, "returned")
    /\ UNCHANGED <<hist, res, autoMerge, am, env, comments, slack, np, repo,
                   ens, sched>>

\* the batched add fails: nothing catches it, the handler raises
AddLabelsFail ==
    /\ inv.pc = "addAll"
    /\ MayFail
    /\ calls' = Append(calls, Call("issues.addLabels", inv.toAdd))
    /\ inv' = Ended(Failed(inv), "raised")
    /\ hist' = OneMoreFailure
    /\ UNCHANGED <<labels, res, autoMerge, am, env, comments, slack, np, repo,
                   ens, sched>>

\* issues.removeLabel for a label another invocation has removed since the
\* labels were read: GitHub answers 404, the error is caught and logged
RemoveLabelGone(name) ==
    /\ inv.pc = "remove"
    /\ name \in inv.toRemove
    /\ name \notin labels
    /\ calls' = Append(calls, Call("issues.removeLabel", name))
    /\ inv' = AfterRemove(Failed([inv EXCEPT
                                     !.toRemove = inv.toRemove \ {name}]))
    /\ UNCHANGED <<labels, hist, res, autoMerge, am, env, comments, slack, np,
                   repo, ens, sched>>

\* the running reconciler has issued a label write since it was resumed
WroteSinceResume ==
    \E i \in (sched.mark + 1)..Len(calls) :
        calls[i].api \in {"issues.removeLabel", "issues.addLabels"}

\* two workflow runs execute a reconciler at the same time: between two
\* GitHub calls of the one, the other one runs
Switch ==
    /\ inv.pc # "idle"
    /\ sched.other.pc # "done"
    /\ sched' = [other |-> inv, otherCalls |-> calls, me |-> 3 - sched.me,
                 mark |-> Len(sched.otherCalls),
                 lastWriter |-> IF WroteSinceResume THEN sched.me
                                ELSE sched.lastWriter]
    /\ inv' = sched.other
    /\ calls' = sched.otherCalls
    /\ UNCHANGED <<labels, hist, res, autoMerge, am, env, comments, slack, np,
                   repo, ens>>

\* the handler has returned or raised; the next event may start another
Return ==
    /\ inv.pc = "done"
    /\ inv' = NoInv
    /\ calls' = <<>>
    /\ UNCHANGED <<labels, hist, res, autoMerge, am, env, comments, slack, np,
                   repo, ens, sched>>

Init ==
    /\ res = NoRes
    /\ labels \in {S \in SUBSET (QA_LABEL_NAMES \cup STATUS_LABEL_NAMES
                                  \cup {"fix"} \cup ForeignLabels) :
                      Cardinality(S) <= MaxInitLabels}
    /\ inv = NoInv
    /\ hist = [NoHist EXCEPT !.startOk = AtMostOnePerEnumeration(labels)]
    /\ calls = <<>>
    /\ autoMerge = FALSE
    /\ am = NoAm
    /\ NotifierOff
    /\ MoreOff

\* the two reconcilers, every call of which may fail
Next ==
    \/ \E ws \in WorkflowStatuses, again \in BOOLEAN : StartQA(ws, again)
    \/ \E input \in StatusInputs, again \in BOOLEAN :
          StartStatus(input, again)
    \/ ListLabelsOk
    \/ ListLabelsFail
    \/ \E name \in inv.toRemove : RemoveLabelOk(name)
    \/ \E name \in inv.toRemove : RemoveLabelFail(name)
    \/ AddLabelOk
    \/ AddLabelFail
    \/ Return

Spec == Init /\ [][Next]_vars

\* the two reconcilers and the labeler, every call of which succeeds, on a
\* pull request that starts with at most one label of each enumeration
InitLabels == Init /\ hist.startOk

NextLabels ==
    \/ \E ws \in WorkflowStatuses : StartQA(ws, FALSE)
    \/ \E input \in StatusInputs : StartStatus(input, FALSE)
    \/ ListLabelsOk
    \/ \E name \in inv.toRemove : RemoveLabelOk(name)
    \/ AddLabelOk
    \/ \E title \in Titles, body \in Bodies : StartLabeler(title, body)
    \/ \E draft \in BOOLEAN : PullsGetOk(draft)
    \/ AddLabelsOk
    \/ Return

SpecLabels == InitLabels /\ [][NextLabels]_vars

\* the two reconcilers and the labeler when the read of the labels, the
\* read of the pull request or the batched add may fail
SpecFail ==
    InitLabels /\ [][NextLabels \/ ListLabelsFail \/ PullsGetFail
                                \/ AddLabelsFail]_vars

\* two concurrent invocations of one reconciler, every call of which
\* succeeds unless the label to remove is gone
NextConc ==
    \/ \E ws \in WorkflowStatuses :
          sched.other.op \in {"none", "qa"} /\ StartQA(ws, FALSE)
    \/ \E input \in StatusInputs :
          sched.other.op \in {"none", "status"} /\ StartStatus(input, FALSE)
    \/ ListLabelsOk
    \/ \E name \in inv.toRemove : RemoveLabelOk(name)
    \/ \E name \in inv.toRemove : RemoveLabelGone(name)
    \/ AddLabelOk
    \/ Switch

SpecConc == InitLabels /\ [][NextConc]_vars


(***************************************************************************)
(* The pure computations applied to inputs drawn from bounded sets:        *)
(* checkApproval on the answer of pulls.listReviews, determineQAStatus on  *)
(* the job results and the labels of the PR, and the label selection of    *)
(* updatePRStatusLabel; each behaviour applies one of them once            *)
(***************************************************************************)
CheckApproval(reviewList, author) ==
    /\ res = NoRes
    /\ res' = [fn |-> "checkApproval", reviews |-> reviewList,
               prAuthor |-> author,
               value |-> checkApproval(reviewList, author)]
    /\ UNCHANGED <<labels, inv, hist, calls, autoMerge, am, env, comments,
                   slack, np, repo, ens, sched>>

DetermineQAStatus(eventName, qaResult, secretScanningResult) ==
    /\ res = NoRes
    /\ res' = [fn |-> "determineQAStatus", eventName |-> eventName,
               qaResult |-> qaResult,
               secretScanningResult |-> secretScanningResult,
               value |-> determineQAStatus(eventName, qaResult,
                                           secretScanningResult, labels)]
    /\ UNCHANGED <<labels, inv, hist, calls, autoMerge, am, env, comments,
                   slack, np, repo, ens, sched>>

SelectStatusLabel(input) ==
    /\ res = NoRes
    /\ res' = [fn |-> "statusDesiredLabel", input |-> input,
               value |-> statusDesiredLabel(input.isDraft, input.hasApproval,
                             input.qaStatus, input.isMerged,
                             input.isAbandoned)]
    /\ UNCHANGED <<labels, inv, hist, calls, autoMerge, am, env, comments,
                   slack, np, repo, ens, sched>>

CalculateDesiredReactions(labelNames, isPRMerged) ==
    /\ res = NoRes
    /\ res' = [fn |-> "calculateDesiredReactions", labels |-> labelNames,
               isPRMerged |-> isPRMerged,
               value |-> calculateDesiredReactions(labelNames, isPRMerged)]
    /\ UNCHANGED <<labels, inv, hist, calls, autoMerge, am, env, comments,
                   slack, np, repo, ens, sched>>

\* the status line of the full rendering for a PR with these labels
BuildStatusTexts(labelNames) ==
    /\ res = NoRes
    /\ res' = [fn |-> "statusTexts", labels |-> labelNames,
               value |-> statusTexts(labelNames)]
    /\ UNCHANGED <<labels, inv, hist, calls, autoMerge, am, env, comments,
                   slack, np, repo, ens, sched>>

\* the labels analyzePRAndApplyLabels derives from the title and the body
AnalyzeTitle(title, body) ==
    /\ res = NoRes
    /\ res' = [fn |-> "titleLabels", title |-> title, body |-> body,
               value |-> titleLabels(title, body)]
    /\ UNCHANGED <<labels, inv, hist, calls, autoMerge, am, env, comments,
                   slack, np, repo, ens, sched>>

InitPure ==
    /\ res = NoRes
    /\ labels \in SUBSET (QA_LABEL_NAMES \cup ForeignLabels)
    /\ inv = NoInv
    /\ hist = NoHist
    /\ calls = <<>>
    /\ autoMerge = FALSE
    /\ am = NoAm
    /\ NotifierOff
    /\ MoreOff

NextPure ==
    \* the answers of pulls.listReviews: lists of reviews with state and
    \* login
    \/ \E reviewList \in
             UNION {[1..n -> [state : {"APPROVED", "CHANGES_REQUESTED",
                                       "COMMENTED"},
                              login : {"alice", "bob"}]] : n \in 0..MaxReviews},
          author \in {"alice", "bob"} :
          CheckApproval(reviewList, author)
    \/ \E eventName \in {"pull_request", "pull_request_review", "push"},
          qaResult \in QaResults,
          secretScanningResult \in SecretScanningResults :
          DetermineQAStatus(eventName, qaResult, secretScanningResult)
    \/ \E input \in StatusInputs : SelectStatusLabel(input)
    \/ \E labelNames \in SUBSET (ReactionLabelNames
                                    \cup {"status:merged", "status:draft",
                                          "constructor"}),
          isPRMerged \in BOOLEAN :
          CalculateDesiredReactions(labelNames, isPRMerged)
    \* the titles of the title analysis: Titles, the three dependency
    \* prefixes, titles that miss the dependency pattern narrowly, and titles
    \* with a line terminator inside the scope
    \/ \E title \in
          Titles \cup {W.fix \o W.deps \o W.sp \o <<"u">>,
                       W.build \o W.deps \o W.sp \o <<"v">>,
                       W.chore \o W.deps,
                       W.chore \o <<"(", "d", "e", "p", "s", ")", "!", ":">>
                           \o W.sp \o <<"w">>,
                       W.feat \o W.deps \o W.sp \o <<"k">>,
                       W.sp \o W.fix \o W.deps \o W.sp \o <<"u">>,
                       W.build \o <<":">> \o W.sp \o <<"b">>,
                       W.fix \o <<"(", "a", ")", "!", ":">> \o W.sp \o <<"m">>,
                       W.revert \o <<"(", ")", ":">> \o W.sp \o <<"r">>,
                       W.feat \o <<"(", "<U+2028>", ")", ":">> \o W.sp
                           \o <<"x">>,
                       W.fix \o <<"(", "a", "<U+2029>", "b", ")", "!", ":">>
                           \o W.sp \o <<"x">>,
                       W.docs \o <<"(", "a", "\n", ")", ":">> \o W.sp
                           \o <<"y">>},
          body \in Bodies :
          AnalyzeTitle(title, body)

    \/ \E labelNames \in SUBSET {"status:approved", "qa:failed",
                                   "priority:high", "priority:low",
                                   "type:bug", "type:docs"} :
          BuildStatusTexts(labelNames)

SpecPure == InitPure /\ [][NextPure]_vars

(***************************************************************************)
(* auto-merge-manager.js: manageAutoMerge, one step per GitHub call        *)
(***************************************************************************)
\* the substrings the catch block looks for, in the order it tests them
KnownSubstrings == <<"Auto-merge is not enabled", "already enabled",
                     "Auto-merge is not allowed",
                     "Pull request is in clean status",
                     "Pull request is in dirty status">>

\* an error message, as the set of the known substrings it contains
ErrorMessages == {m \in SUBSET Range(KnownSubstrings) : Cardinality(m) <= 2}

\* the default value of the parameter mergeMethod
mergeMethodParam(mergeMethod) ==
    IF mergeMethod = Undefined THEN "squash" ELSE mergeMethod

\* mergeMethodMap[mergeMethod] || "SQUASH": the entry of the map, else the
\* (truthy) property the object literal inherits under that name, else
\* "SQUASH"
mergeMethodEnum(mergeMethod) ==
    CASE mergeMethod = "merge" -> "MERGE"
      [] mergeMethod = "squash" -> "SQUASH"
      [] mergeMethod = "rebase" -> "REBASE"
      [] inheritedProperty(mergeMethod) # Undefined ->
             inheritedProperty(mergeMethod)
      [] OTHER -> "SQUASH"

isMergeableIgnoringDraft(hasApproval, qaStatus, isDraft) ==
    hasApproval /\ qaStatus = "success"

isMergeable(hasApproval, qaStatus, isDraft) ==
    hasApproval /\ qaStatus = "success" /\ ~isDraft

\* the GitHub calls of the branch taken when the PR is not mergeable
notMergeableCallsDisable(hasApproval, qaStatus, isDraft) ==
    <<Call("disablePullRequestAutoMerge", "")>>

notMergeableCalls(hasApproval, qaStatus, isDraft) == <<>>

\* the branch of the catch block an error message takes
catchLog(message) ==
    LET hits == {k \in DOMAIN KnownSubstrings : KnownSubstrings[k] \in message}
    IN IF hits = {} THEN "error"
       ELSE KnownSubstrings[CHOOSE k \in hits : \A j \in hits : k <= j]

\* how the handler ends after the catch block
catchOutcomeRethrow(message) ==
    IF catchLog(message) = "error" THEN "raised" ELSE "returned"

catchOutcome(message) == "returned"

\* GitHub: the effect of successful calls on the auto-merge state of the PR
autoMergeEffect(enabled, callSeq) ==
    IF \E i \in DOMAIN callSeq : callSeq[i].api = "disablePullRequestAutoMerge"
    THEN FALSE
    ELSE IF \E i \in DOMAIN callSeq :
               callSeq[i].api = "enablePullRequestAutoMerge"
    THEN TRUE
    ELSE enabled

AmEnded(a, outcome) == [a EXCEPT !.pc = "done", !.outcome = outcome]

\* manageAutoMerge up to its first GitHub call (lines 37-82)
StartAutoMerge(input) ==
    /\ am.pc \in {"idle", "done"}
    /\ LET a == [NoAm EXCEPT !.input = input]
           skipped == notMergeableCalls(input.hasApproval, input.qaStatus,
                                        input.isDraft)
       IN IF input.prAuthorType = "Bot"
          THEN /\ am' = AmEnded(a, "returned")
               /\ calls' = <<>>
               /\ autoMerge' = autoMerge
          ELSE IF isMergeable(input.hasApproval, input.qaStatus,
                              input.isDraft)
          THEN /\ am' = [a EXCEPT !.pc = "get"]
               /\ calls' = <<>>
               /\ autoMerge' = autoMerge
          ELSE /\ am' = AmEnded(a, "returned")
               /\ calls' = skipped
               /\ autoMerge' = autoMergeEffect(autoMerge, skipped)
    /\ UNCHANGED <<res, labels, inv, hist, env, comments, slack, np, repo,
                   ens, sched>>

\* pulls.get answers with the node id of the pull request
AmPullsGetOk ==
    /\ am.pc = "get"
    /\ calls' = Append(calls, Call("pulls.get", ""))
    /\ am' = [am EXCEPT !.pc = "mutate"]
    /\ UNCHANGED <<res, labels, inv, hist, autoMerge, env, comments, slack,
                   np, repo, ens, sched>>

\* pulls.get fails: the catch block takes the error
AmPullsGetFail(message) ==
    /\ am.pc = "get"
    /\ calls' = Append(calls, Call("pulls.get", ""))
    /\ am' = AmEnded([am EXCEPT !.log = catchLog(message),
                                !.getFailed = TRUE],
                     catchOutcome(message))
    /\ UNCHANGED <<res, labels, inv, hist, autoMerge, env, comments, slack,
                   np, repo, ens, sched>>

\* the enablePullRequestAutoMerge mutation succeeds
EnableAutoMergeOk ==
    /\ am.pc = "mutate"
    /\ LET call == Call("enablePullRequestAutoMerge",
                        mergeMethodEnum(mergeMethodParam(am.input.mergeMethod)))
       IN /\ calls' = Append(calls, call)
          /\ autoMerge' = autoMergeEffect(autoMerge, <<call>>)
    /\ am' = AmEnded([am EXCEPT !.log = "enabled"], "returned")
    /\ UNCHANGED <<res, labels, inv, hist, env, comments, slack, np, repo,
                   ens, sched>>

\* the mutation fails: the catch block takes the error
EnableAutoMergeFail(message) ==
    /\ am.pc = "mutate"
    /\ calls' = Append(calls, Call("enablePullRequestAutoMerge",
                   mergeMethodEnum(mergeMethodParam(am.input.mergeMethod))))
    /\ am' = AmEnded([am EXCEPT !.log = catchLog(message)],
                     catchOutcome(message))
    /\ UNCHANGED <<res, labels, inv, hist, autoMerge, env, comments, slack,
                   np, repo, ens, sched>>

\* auto-merge may have been enabled by hand before the first invocation
InitAutoMerge ==
    /\ res = NoRes
    /\ labels = {}
    /\ inv = NoInv
    /\ hist = NoHist
    /\ calls = <<>>
    /\ autoMerge \in BOOLEAN
    /\ am = NoAm
    /\ NotifierOff
    /\ MoreOff

NextAutoMerge ==
    \/ \E input \in [prAuthorType : {"User", "Bot"}, hasApproval : BOOLEAN,
                     qaStatus : QaStatuses, isDraft : BOOLEAN,
                     mergeMethod : {"merge", "squash", "rebase",
                                    "fast-forward", "constructor",
                                    Undefined}] :
          StartAutoMerge(input)
    \/ AmPullsGetOk
    \/ \E message \in ErrorMessages : AmPullsGetFail(message)
    \/ EnableAutoMergeOk
    \/ \E message \in ErrorMessages : EnableAutoMergeFail(message)

SpecAutoMerge == InitAutoMerge /\ [][NextAutoMerge]_vars


(***************************************************************************)
(* Slack notifier: one step per GitHub call and per attempt of slackApi.   *)
(* p is the process that runs the invocation.                              *)
(***************************************************************************)
\* the record of an invocation that has ended
NEnded(r, outcome) == [r EXCEPT !.pc = "done", !.outcome = outcome]

\* the error has reached the catch of the notifier (lines 918-936)
Caught(r, error) ==
    [NEnded(r, notifierCatch(error)) EXCEPT !.caught = error]

\* the invocation has issued one more call
Called(r, api, arg) == [r EXCEPT !.calls = @ \cup {Call(api, arg)}]

\* the method of the slackApi call that the invocation is at
slackMethod(r) ==
    CASE r.pc = "send" ->
            IF r.slackTs = Null THEN "chat.postMessage" ELSE "chat.update"
      [] r.pc \in {"history", "verify"} -> "conversations.history"
      [] r.pc \in {"remove", "resetRemove"} -> "reactions.remove"
      [] r.pc \in {"add", "resetAdd"} -> "reactions.add"

afterDeltaAddFirst(r) ==
    LET q == [r EXCEPT !.attempt = 0, !.cur = Null]
    IN IF q.toAdd # <<>> THEN [q EXCEPT !.pc = "add"]
       ELSE IF q.toRemove # {} THEN [q EXCEPT !.pc = "remove"]
       ELSE IF q.changesMade > 0 \/ q.errors > 0
            THEN [q EXCEPT !.pc = "verify"]
            ELSE NEnded(q, "returned")

reactionsCatchRethrow(r, error) == Caught(r, error)

\* the catch of manageReactionsEfficiently (lines 1093-1096) and the outer
\* catch of verifySanity (lines 1284-1286) log the error: the function
\* returns
reactionsCatch(r, error) == NEnded(r, "returned")

\* where the delta pass goes on: the removals, then the additions, then
\* verifySanity if anything was changed or went wrong (lines 1029-1092)
afterDelta(r) ==
    LET q == [r EXCEPT !.attempt = 0, !.cur = Null]
    IN IF q.toRemove # {} THEN [q EXCEPT !.pc = "remove"]
       ELSE IF q.toAdd # <<>> THEN [q EXCEPT !.pc = "add"]
       ELSE IF q.changesMade > 0 \/ q.errors > 0
            THEN [q EXCEPT !.pc = "verify"]
            ELSE NEnded(q, "returned")

afterResetVerify(r) ==
    LET q == [r EXCEPT !.attempt = 0, !.cur = Null]
    IN IF q.toRemove # {} THEN [q EXCEPT !.pc = "resetRemove"]
       ELSE IF q.toAdd # <<>> THEN [q EXCEPT !.pc = "resetAdd"]
       ELSE [q EXCEPT !.pc = "verify"]

\* where the full reset of verifySanity goes on (lines 1246-1280)
afterReset(r) ==
    LET q == [r EXCEPT !.attempt = 0, !.cur = Null]
    IN IF q.toRemove # {} THEN [q EXCEPT !.pc = "resetRemove"]
       ELSE IF q.toAdd # <<>> THEN [q EXCEPT !.pc = "resetAdd"]
       ELSE NEnded(q, "returned")

\* the reaction that the loop of r.pc is at: any of the names to remove (the
\* order is that of the reactions in Slack's answer), or the first to add
isCurrent(r, name) ==
    IF r.pc \in {"remove", "resetRemove"}
    THEN name \in r.toRemove /\ r.cur \in {Null, name}
    ELSE IF r.pc \in {"add", "resetAdd"}
         THEN r.toAdd # <<>> /\ name = Head(r.toAdd)
         ELSE name = Null

\* the loop of r.pc has dealt with the reaction name
reactionDone(r, name) ==
    IF r.pc \in {"remove", "resetRemove"}
    THEN [r EXCEPT !.toRemove = @ \ {name}]
    ELSE [r EXCEPT !.toAdd = Tail(@)]

\* module.exports up to the first GitHub call (lines 247-297)
NStart(p) ==
    /\ np[p].pc = "idle"
    /\ np' = [np EXCEPT ![p] =
                 IF env.token /\ env.channel
                 THEN [NoNp EXCEPT !.pc = "repos.get"]
                 ELSE NEnded(NoNp, "returned")]
    /\ UNCHANGED <<env, comments, slack, res, labels, inv, hist, calls,
                   autoMerge, am, repo, ens, sched>>

\* repos.get, issues.listLabelsOnIssue and pulls.get answer (lines 299-338)
ReadPrOk(p) ==
    LET r == Called(np[p], np[p].pc, "")
    IN /\ np[p].pc \in {"repos.get", "issues.listLabelsOnIssue", "pulls.get"}
       /\ np' = [np EXCEPT ![p] =
                   CASE r.pc = "repos.get" ->
                           [r EXCEPT !.pc = "issues.listLabelsOnIssue"]
                     [] r.pc = "issues.listLabelsOnIssue" ->
                           [r EXCEPT !.labels = labels, !.pc = "pulls.get"]
                     [] r.pc = "pulls.get" ->
                           [r EXCEPT !.isPRMerged = env.merged,
                                     !.pc = "issues.listComments"]]
       /\ UNCHANGED <<env, comments, slack, res, labels, inv, hist, calls,
                      autoMerge, am, repo, ens, sched>>

\* issues.listComments answers; the look for a recorded ts and the early
\* returns follow without another call (lines 341-386)
NListCommentsOk(p) ==
    LET ts == foundTs(comments.list)
        r == [Called(np[p], "issues.listComments", "")
                 EXCEPT !.slackTs = ts, !.foundTs = ts]
    IN /\ np[p].pc = "issues.listComments"
       /\ np' = [np EXCEPT ![p] =
                   IF skipsNotification(env.authorType, r.labels,
                                        r.isPRMerged, ts)
                   THEN NEnded(r, "returned")
                   ELSE IF ts = Null
                        THEN [r EXCEPT !.pc = "issues.createComment"]
                        ELSE [r EXCEPT !.pc = "send"]]
       /\ UNCHANGED <<env, comments, slack, res, labels, inv, hist, calls,
                      autoMerge, am, repo, ens, sched>>

\* issues.createComment stores the lock comment (lines 836-843)
CreateCommentOk(p) ==
    /\ np[p].pc = "issues.createComment"
    /\ comments' = [list |-> Append(comments.list,
                                    [id |-> comments.nextId,
                                     body |-> LockBody]),
                    nextId |-> comments.nextId + 1]
    /\ np' = [np EXCEPT ![p] =
                 [Called(@, "issues.createComment", LockBody.text)
                     EXCEPT !.lockId = comments.nextId, !.pc = "relist"]]
    /\ UNCHANGED <<env, slack, res, labels, inv, hist, calls, autoMerge, am,
                   repo, ens, sched>>

\* the second issues.listComments answers (lines 846-859)
RelistOk(p) ==
    LET existing == findMarker(comments.list, np[p].lockId)
        r == Called(np[p], "issues.listComments", "")
    IN /\ np[p].pc = "relist"
       /\ np' = [np EXCEPT ![p] =
                   IF existing # {}
                   THEN [r EXCEPT !.pc = "issues.deleteComment",
                                  !.pendingTs =
                                     matchTs((CHOOSE c \in existing :
                                                 TRUE).body)]
                   ELSE [r EXCEPT !.pc = "send"]]
       /\ UNCHANGED <<env, comments, slack, res, labels, inv, hist, calls,
                      autoMerge, am, repo, ens, sched>>

\* issues.deleteComment removes the lock comment: of the invocation that
\* found another writer's marker (lines 861-870), or after a post without
\* a ts (lines 892-897)
DeleteCommentOk(p) ==
    LET r == Called(np[p], "issues.deleteComment", LockBody.text)
        Kept(c) == c.id # r.lockId
    IN /\ np[p].pc \in {"issues.deleteComment", "cleanup"}
       /\ comments' = [comments EXCEPT !.list = SelectSeq(@, Kept)]
       /\ np' = [np EXCEPT ![p] =
                   IF r.pc = "cleanup" \/ r.pendingTs = Null
                   THEN NEnded(r, "returned")
                   ELSE [r EXCEPT !.slackTs = r.pendingTs,
                                  !.pc = "history"]]
       /\ UNCHANGED <<env, slack, res, labels, inv, hist, calls, autoMerge,
                      am, repo, ens, sched>>

\* issues.updateComment writes the ts into the lock comment (lines 875-889)
UpdateCommentOk(p) ==
    LET r == Called(np[p], "issues.updateComment", np[p].pendingTs)
        list == comments.list
    IN /\ np[p].pc = "issues.updateComment"
       /\ comments' = [comments EXCEPT !.list =
                          [k \in DOMAIN list |->
                              IF list[k].id = r.lockId
                              THEN [list[k] EXCEPT
                                       !.body = markerBody(r.pendingTs)]
                              ELSE list[k]]]
       /\ np' = [np EXCEPT ![p] =
                   [r EXCEPT !.slackTs = r.pendingTs, !.pc = "history"]]
       /\ UNCHANGED <<env, slack, res, labels, inv, hist, calls, autoMerge,
                      am, repo, ens, sched>>

\* a GitHub call is rejected: pulls.get and the deletion after a failed
\* post have their own catch (lines 336-338, 898-900), every other call
\* throws to the catch of the notifier (lines 918-936)
GithubFail(p, error) ==
    LET api == CASE np[p].pc = "relist" -> "issues.listComments"
                 [] np[p].pc = "cleanup" -> "issues.deleteComment"
                 [] OTHER -> np[p].pc
        r == Called(np[p], api, "")
    IN /\ np[p].pc \in {"repos.get", "issues.listLabelsOnIssue",
                        "pulls.get", "issues.listComments",
                        "issues.createComment", "relist",
                        "issues.deleteComment", "issues.updateComment",
                        "cleanup"}
       /\ MayFail
       /\ hist' = OneMoreFailure
       /\ np' = [np EXCEPT ![p] =
                   CASE r.pc = "pulls.get" ->
                           [r EXCEPT !.isPRMerged = FALSE,
                                     !.pc = "issues.listComments"]
                     [] r.pc = "cleanup" -> NEnded(r, "returned")
                     [] OTHER -> Caught(r, error)]
       /\ UNCHANGED <<env, comments, slack, res, labels, inv, calls,
                      autoMerge, am, repo, ens, sched>>

\* the catch of sendMessage (lines 764-826): invalid_blocks is tried again
\* twice, then once more with the fallback blocks outside of the try
sendMessageCatch(r, error) ==
    IF messageIncludes(error, "invalid_blocks") /\ ~r.fallback
    THEN IF r.retryCount < sendMessageMaxRetries
         THEN [r EXCEPT !.retryCount = @ + 1, !.attempt = 0]
         ELSE [r EXCEPT !.fallback = TRUE, !.attempt = 0]
    ELSE Caught(r, error)

\* chat.postMessage or chat.update answers ok (lines 742-763, 808-822, and
\* 873-906); an answer to chat.postMessage may lack a ts
SendOk(p, withTs) ==
    LET r == [Called(np[p], slackMethod(np[p]), np[p].slackTs)
                 EXCEPT !.attempt = 0]
        blocks == messageBlocks(r.labels, r.isPRMerged, env.isAbandoned,
                                r.fallback)
        ts == NewTs[Len(slack.posted) + 1]
    IN /\ np[p].pc = "send"
       /\ ~(slack.rejects /\ ~blocks.fallback)
       /\ IF r.slackTs # Null
          THEN /\ withTs
               /\ slack' = [slack EXCEPT !.content[r.slackTs] = blocks]
               /\ np' = [np EXCEPT ![p] = [r EXCEPT !.pc = "history"]]
          ELSE IF withTs
               THEN /\ Len(slack.posted) < Len(NewTs)
                    /\ slack' = [slack EXCEPT !.posted = Append(@, ts),
                                              !.content[ts] = blocks]
                    /\ np' = [np EXCEPT ![p] =
                                [r EXCEPT !.pendingTs = ts,
                                          !.pc = "issues.updateComment"]]
               ELSE /\ slack' = slack
                    /\ np' = [np EXCEPT ![p] = [r EXCEPT !.pc = "cleanup"]]
       /\ UNCHANGED <<env, comments, res, labels, inv, hist, calls, autoMerge,
                      am, repo, ens, sched>>

\* conversations.history answers: in manageReactionsEfficiently the delta
\* is computed (lines 982-1022), in verifySanity the managed reactions are
\* compared with the desired ones and the full reset prepared (1197-1243)
HistoryOk(p) ==
    LET r == Called(np[p], "conversations.history", np[p].slackTs)
        current == {q.name : q \in {x \in slack.reactions :
                                        x.ts = r.slackTs}}
        managed == managedReactions(current)
        desired == calculateDesiredReactions(r.labels, r.isPRMerged)
        delta == calculateDelta(managed, desired)
    IN /\ np[p].pc \in {"history", "verify"}
       /\ np' = [np EXCEPT ![p] =
                   IF slack.content[r.slackTs].kind = "none"
                   THEN NEnded(r, "returned")
                   ELSE IF r.pc = "history"
                   THEN afterDelta([r EXCEPT !.desired = desired,
                                             !.toRemove = delta.remove,
                                             !.toAdd = delta.add])
                   ELSE IF managed = Range(r.desired)
                   THEN NEnded(r, "returned")
                   ELSE afterReset([r EXCEPT
                                       !.desired = sortReactions(@),
                                       !.toRemove = managed,
                                       !.toAdd = sortReactions(r.desired)])]
       /\ UNCHANGED <<env, comments, slack, res, labels, inv, hist, calls,
                      autoMerge, am, repo, ens, sched>>

\* reactions.remove or reactions.add answers ok: Slack removes or records
\* the reaction of the bot.  In the delta pass the statement after the call
\* reads REACTION_DELAY_MS (lines 1038, 1067), a name that is not in scope
\* in manageReactionsEfficiently: the ReferenceError lands in the catch of
\* the loop, which pushes it on errors after changesMade was incremented.
ReactionOk(p, name) ==
    LET r == Called(np[p], slackMethod(np[p]), name)
        removing == r.pc \in {"remove", "resetRemove"}
        mine == [ts |-> r.slackTs, name |-> name, user |-> "bot"]
    IN /\ np[p].pc \in {"remove", "add", "resetRemove", "resetAdd"}
       /\ isCurrent(np[p], name)
       /\ IF removing THEN mine \in slack.reactions
                      ELSE mine \notin slack.reactions
       /\ slack' = [slack EXCEPT !.reactions =
                       IF removing THEN @ \ {mine} ELSE @ \cup {mine}]
       /\ np' = [np EXCEPT ![p] =
                   IF r.pc \in {"remove", "add"}
                   THEN afterDelta([reactionDone(r, name) EXCEPT
                                       !.changesMade = @ + 1,
                                       !.errors = @ + 1])
                   ELSE afterReset(reactionDone(r, name))]
       /\ UNCHANGED <<env, comments, res, labels, inv, hist, calls, autoMerge,
                      am, repo, ens, sched>>

\* an attempt of slackApi fails with error (lines 448-555).  Slack itself
\* answers no_reaction when the bot has not put the reaction to remove and
\* already_reacted when it has put the reaction to add; any other failure
\* is transient, and counts as one failure of the behaviour however many
\* attempts of the call it spoils.  Unless the error is fatal or this was the last attempt
\* the call is tried again; the error thrown is handled by the catch of
\* sendMessage, of manageReactionsEfficiently (1093), of its loops (1042,
\* 1071) or of verifySanity (1257, 1277, 1284).
SlackFail(p, name, error, transient) ==
    LET r == Called(np[p], slackMethod(np[p]),
                    IF name = Null THEN np[p].slackTs ELSE name)
        mine == [ts |-> r.slackTs, name |-> name, user |-> "bot"]
        natural ==
            \/ /\ r.pc \in {"remove", "resetRemove"}
               /\ mine \notin slack.reactions
               /\ error = "no_reaction"
            \/ /\ r.pc \in {"add", "resetAdd"}
               /\ mine \in slack.reactions
               /\ error = "already_reacted"
            \/ /\ r.pc = "send"
               /\ slack.rejects
               /\ ~messageBlocks(r.labels, r.isPRMerged, env.isAbandoned,
                                 r.fallback).fallback
               /\ error = "invalid_blocks"
        expected == IF r.pc = "remove" THEN "no_reaction"
                    ELSE "already_reacted"
    IN /\ np[p].pc \in {"send", "history", "remove", "add", "verify",
                        "resetRemove", "resetAdd"}
       /\ isCurrent(np[p], name)
       /\ IF transient
          THEN IF r.attempt = 0 THEN MayFail /\ hist' = OneMoreFailure
                                ELSE hist' = hist
          ELSE natural /\ hist' = hist
       /\ np' = [np EXCEPT ![p] =
                   IF retryable(error) /\ r.attempt < slackApiMaxRetries
                   THEN [r EXCEPT !.attempt = @ + 1, !.cur = name]
                   ELSE CASE r.pc = "send" -> sendMessageCatch(r, error)
                          [] r.pc \in {"history", "verify"} ->
                                reactionsCatch(r, error)
                          [] r.pc \in {"remove", "add"} ->
                                afterDelta([reactionDone(r, name) EXCEPT
                                   !.errors =
                                      IF messageIncludes(error, expected)
                                      THEN @ ELSE @ + 1])
                          [] OTHER -> afterReset(reactionDone(r, name))]
       /\ UNCHANGED <<env, comments, slack, res, labels, inv, calls,
                      autoMerge, am, repo, ens, sched>>

(***************************************************************************)
(* One invocation of the notifier, every call of which may fail            *)
(***************************************************************************)
\* the environments: without a credential nothing else is read
SlackEnvs ==
    {e \in [token : BOOLEAN, channel : BOOLEAN,
            authorType : {"User", "Bot"}, isAbandoned : BOOLEAN,
            merged : BOOLEAN] :
        (e.token /\ e.channel) \/ e = [NoEnv EXCEPT !.token = e.token,
                                                   !.channel = e.channel]}

\* label sets of the pull request when the notifier runs
SlackLabelSets ==
    {S \in SUBSET {"qa:running", "status:approved", "status:draft",
                   "status:merged"} :
        Cardinality(S) <= MaxInitLabels}

\* the emoji names that occur in the model
ReactionNames == allStatusReactions \cup {"tada"}

\* before the invocation the comments and the Slack channel are any of: no comment,
\* a comment with a broken marker, or the marker of a message that exists
\* and carries some reactions of the bot and of a human
InitSlack ==
    /\ res = NoRes
    /\ labels \in SlackLabelSets
    /\ inv = NoInv
    /\ hist = NoHist
    /\ calls = <<>>
    /\ autoMerge = FALSE
    /\ am = NoAm
    /\ env \in SlackEnvs
    /\ \E w \in
              {[comments |-> NoComments, slack |-> NoSlack],
               [comments |-> [list |-> <<[id |-> 1,
                                           body |-> [text |-> "<!-- slack-ts:",
                                                     ts |-> Null]]>>,
                              nextId |-> 2],
                slack |-> NoSlack]}
              \cup {[comments |-> [list |-> <<[id |-> 1,
                                                body |-> markerBody(ExistingTs)]>>,
                                   nextId |-> 2],
                     slack |-> [NoSlack EXCEPT
                                   !.content[ExistingTs] =
                                      messageBlocks({}, FALSE, FALSE, FALSE),
                                   !.reactions = S]] :
                       S \in {T \in SUBSET [ts : {ExistingTs},
                                            name : {"x", "runner", "thumbsup", "tada"},
                                            user : {"bot", "human"}] :
                                 /\ Cardinality(T) <= MaxInitReactions
                                 /\ \A q \in T : q.user = "bot" <=>
                                                     q.name \in {"x", "runner"}}} :
          comments = w.comments /\ slack = w.slack
    /\ np = [p \in Notifiers |-> NoNp]
    /\ MoreOff

NextSlack ==
    \/ NStart("n1")
    \/ ReadPrOk("n1")
    \/ NListCommentsOk("n1")
    \/ CreateCommentOk("n1")
    \/ RelistOk("n1")
    \/ DeleteCommentOk("n1")
    \/ UpdateCommentOk("n1")
    \/ \E error \in {"Not Found", "not_authed"} : GithubFail("n1", error)
    \/ \E withTs \in BOOLEAN : SendOk("n1", withTs)
    \/ HistoryOk("n1")
    \/ \E name \in ReactionNames : ReactionOk("n1", name)
    \/ \E name \in ReactionNames \cup {Null}, error \in SlackErrors,
          transient \in BOOLEAN : SlackFail("n1", name, error, transient)

SpecSlack == InitSlack /\ [][NextSlack]_vars

\* the invocation goes on as long as a step is possible: every call that it
\* awaits is answered or fails
SpecSlackFair == SpecSlack /\ WF_vars(NextSlack)

(***************************************************************************)
(* Two concurrent invocations of the notifier for a pull request without   *)
(* a marker comment; GitHub and Slack answer every call                    *)
(***************************************************************************)
InitRace ==
    /\ res = NoRes
    /\ labels \in {S \in SlackLabelSets :
                      S \cap {"status:draft", "status:merged"} = {}}
    /\ inv = NoInv
    /\ hist = NoHist
    /\ calls = <<>>
    /\ autoMerge = FALSE
    /\ am = NoAm
    /\ env \in {e \in SlackEnvs : /\ e.token /\ e.channel
                                  /\ e.authorType = "User" /\ ~e.merged}
    /\ comments \in {NoComments,
                     [list |-> <<[id |-> 1,
                                   body |-> [text |-> "LGTM",
                                             ts |-> Null]]>>,
                      nextId |-> 2]}
    /\ slack = NoSlack
    /\ np = [p \in Notifiers |-> NoNp]
    /\ MoreOff

\* a step of the invocation of p in which the call succeeds, or fails
\* because of the reactions that are on the message
NotifierOk(p) ==
    \/ NStart(p)
    \/ ReadPrOk(p)
    \/ NListCommentsOk(p)
    \/ CreateCommentOk(p)
    \/ RelistOk(p)
    \/ DeleteCommentOk(p)
    \/ UpdateCommentOk(p)
    \/ SendOk(p, TRUE)
    \/ HistoryOk(p)
    \/ \E name \in ReactionNames : ReactionOk(p, name)
    \/ \E name \in ReactionNames \cup {Null}, error \in SlackErrors :
          SlackFail(p, name, error, FALSE)

NextRace == \E p \in Notifiers : NotifierOk(p)

SpecRace == InitRace /\ [][NextRace]_vars

\* One invocation of the notifier for a pull request whose blocks Slack
\* rejects with invalid_blocks at every attempt: no marker comment, or the
\* marker of a message that exists
InitBlocks ==
    /\ res = NoRes
    /\ labels \in SlackLabelSets
    /\ inv = NoInv
    /\ hist = NoHist
    /\ calls = <<>>
    /\ autoMerge = FALSE
    /\ am = NoAm
    /\ env \in SlackEnvs
    /\ comments \in {NoComments,
                     [list |-> <<[id |-> 1, body |-> markerBody(ExistingTs)]>>,
                      nextId |-> 2]}
    /\ slack = [NoSlack EXCEPT
                   !.content[ExistingTs] =
                      IF comments = NoComments THEN @
                      ELSE messageBlocks({}, FALSE, FALSE, FALSE),
                   !.rejects = TRUE]
    /\ np = [p \in Notifiers |-> NoNp]
    /\ MoreOff

SpecBlocks == InitBlocks /\ [][NextSlack]_vars

\* two invocations of the notifier, the second one after the first has
\* ended
NextTwice ==
    \/ NotifierOk("n1")
    \/ np["n1"].pc = "done" /\ NotifierOk("n2")

SpecTwice == InitSlack /\ [][NextTwice]_vars

(***************************************************************************)
(* The ensure-labels-exist operations, one step per GitHub call; the       *)
(* passes of the loop that make no call are taken with the call before     *)
(***************************************************************************)
\* the operation begins and issues.listLabelsForRepo answers
EnsureStart(table) ==
    /\ ens.pc \in {"idle", "done"}
    /\ ens.runs < MaxEnsureRuns
    /\ LET idx == nextCall(repo, table, 1)
       IN ens' = [pc |-> IF idx > Len(table) THEN "done" ELSE "loop",
                  table |-> table, existing |-> repo, idx |-> idx,
                  calls |-> <<[api |-> "issues.listLabelsForRepo",
                               name |-> "", ok |-> TRUE]>>,
                  outcome |-> IF idx > Len(table) THEN "returned"
                              ELSE "none",
                  runs |-> ens.runs + 1,
                  ensured |-> IF idx > Len(table)
                              THEN ens.ensured \cup {table}
                              ELSE ens.ensured]
    /\ UNCHANGED <<res, labels, inv, hist, calls, autoMerge, am, env,
                   comments, slack, np, repo, sched>>

\* issues.listLabelsForRepo fails: nothing catches it, the operation raises
EnsureListFail(table) ==
    /\ ens.pc \in {"idle", "done"}
    /\ ens.runs < MaxEnsureRuns
    /\ MayFail
    /\ ens' = [NoEns EXCEPT !.pc = "done", !.table = table,
                            !.calls = <<[api |-> "issues.listLabelsForRepo",
                                         name |-> "", ok |-> FALSE]>>,
                            !.outcome = "raised", !.runs = ens.runs + 1,
                            !.ensured = ens.ensured]
    /\ hist' = OneMoreFailure
    /\ UNCHANGED <<res, labels, inv, calls, autoMerge, am, env, comments,
                   slack, np, repo, sched>>

\* the operation after the call for the label at ens.idx
afterLabel(ok) ==
    LET label == ens.table[ens.idx]
        idx == nextCall(ens.existing, ens.table, ens.idx + 1)
    IN [ens EXCEPT !.pc = IF idx > Len(ens.table) THEN "done" ELSE "loop",
                   !.idx = idx,
                   !.calls = Append(@, [api |-> labelCall(ens.existing,
                                                          label),
                                        name |-> label.name, ok |-> ok]),
                   !.outcome = IF idx > Len(ens.table) THEN "returned"
                               ELSE "none",
                   !.ensured =
                      IF /\ idx > Len(ens.table)
                         /\ ok
                         /\ \A i \in DOMAIN ens.calls : ens.calls[i].ok
                      THEN @ \cup {ens.table}
                      ELSE @]

\* issues.createLabel or issues.updateLabel succeeds: the repository has
\* the label with the colour and the description of the table
EnsureCallOk ==
    /\ ens.pc = "loop"
    /\ LET label == ens.table[ens.idx]
       IN repo' = {l \in repo : l.name # label.name} \cup {label}
    /\ ens' = afterLabel(TRUE)
    /\ UNCHANGED <<res, labels, inv, hist, calls, autoMerge, am, env,
                   comments, slack, np, sched>>

\* the call fails: the error is caught and logged, the loop goes on
EnsureCallFail ==
    /\ ens.pc = "loop"
    /\ MayFail
    /\ ens' = afterLabel(FALSE)
    /\ hist' = OneMoreFailure
    /\ UNCHANGED <<res, labels, inv, calls, autoMerge, am, env, comments,
                   slack, np, repo, sched>>

InitEnsure ==
    /\ res = NoRes
    /\ labels = {}
    /\ inv = NoInv
    /\ hist = NoHist
    /\ calls = <<>>
    /\ autoMerge = FALSE
    /\ am = NoAm
    /\ NotifierOff
    \* repositories before the first operation: three labels are each
    \* absent, as the tables have them, of another colour, or without
    \* description
    /\ repo \in
          LET varied == {l \in CanonicalRepo :
                            l.name \in {"qa:pending", "status:draft", "feat"}}
              was(l, k) == CASE k = 0 -> {}
                             [] k = 1 -> {l}
                             [] k = 2 -> {[l EXCEPT !.color = "000000"]}
                             [] OTHER -> {[l EXCEPT !.description = Null]}
          IN {(CanonicalRepo \ varied) \cup UNION {was(l, c[l]) : l \in varied} :
                 c \in [varied -> 0..3]}
    /\ ens = NoEns
    /\ sched = NoSched

NextEnsure ==
    \/ \E table \in {QA_LABELS, STATUS_LABELS, LABEL_DEFINITIONS} :
          EnsureStart(table)
    \/ \E table \in {QA_LABELS, STATUS_LABELS, LABEL_DEFINITIONS} :
          EnsureListFail(table)
    \/ EnsureCallOk
    \/ EnsureCallFail

SpecEnsure == InitEnsure /\ [][NextEnsure]_vars

(***************************************************************************)
(* Properties of the status resolver (checked under SpecPure)              *)
(***************************************************************************)
\* the label that names a QA status
QaLabelOf(status) ==
    CASE status = "pending" -> "qa:pending"
      [] status = "running" -> "qa:running"
      [] status = "success" -> "qa:success"
      [] status = "failed" -> "qa:failed"

\* C1: checkApproval returns true exactly when the review list holds an
\* APPROVED review whose author is not the author of the pull request; when
\* every APPROVED review is the author's own it returns false.
C1_ApprovalIffForeignApproved ==
    res.fn = "checkApproval" =>
        /\ res.value = TRUE <=>
              \E i \in 1..Len(res.reviews) :
                  /\ res.reviews[i].state = "APPROVED"
                  /\ res.reviews[i].login # res.prAuthor
        /\ (\A i \in 1..Len(res.reviews) :
                res.reviews[i].state = "APPROVED" =>
                    res.reviews[i].login = res.prAuthor)
              => res.value = FALSE

\* a solo self-approval has been judged, and it does not count
C1_Witness ==
    /\ res.fn = "checkApproval"
    /\ res.reviews = <<[state |-> "APPROVED", login |-> res.prAuthor]>>
    /\ res.value = FALSE

\* C2: for an event other than pull_request_review the QA job outcome
\* decides the status (success -> success; failure, cancelled -> failed;
\* skipped, empty or absent -> pending; anything else -> failed), and no
\* secret-scanning outcome changes it.
C2_JobOutcomeTable ==
    (res.fn = "determineQAStatus" /\ res.eventName # "pull_request_review") =>
        /\ res.qaResult = "success" => res.value = "success"
        /\ res.qaResult \in {"failure", "cancelled"} => res.value = "failed"
        /\ res.qaResult \in {"skipped", "", Undefined}
              => res.value = "pending"
        /\ res.qaResult \notin {"success", "failure", "cancelled", "skipped",
                                "", Undefined} => res.value = "failed"
        /\ \A other \in SecretScanningResults :
              determineQAStatus(res.eventName, res.qaResult, other, labels)
                = res.value

\* a passed QA job with a failed secret scan has been resolved to success
C2_Witness ==
    /\ res.fn = "determineQAStatus"
    /\ res.eventName = "pull_request"
    /\ res.qaResult = "success"
    /\ res.secretScanningResult = "failure"
    /\ res.value = "success"

\* C3: for a pull_request_review event the status is the one named by a QA
\* label on the pull request (by the only one when there is just one), it is
\* pending when there is none, and the job outcomes do not matter.
C3_ReviewEventReadsLabel ==
    (res.fn = "determineQAStatus" /\ res.eventName = "pull_request_review") =>
        /\ \A status \in QaStatuses :
              labels \cap QA_LABEL_NAMES = {QaLabelOf(status)}
                 => res.value = status
        /\ labels \cap QA_LABEL_NAMES = {} => res.value = "pending"
        /\ labels \cap QA_LABEL_NAMES # {} => QaLabelOf(res.value) \in labels
        /\ \A qaResult \in QaResults, other \in SecretScanningResults :
              determineQAStatus(res.eventName, qaResult, other, labels)
                = res.value

\* a review event on a PR labelled qa:running, with a failed QA job result
\* passed in, has been resolved to running
C3_Witness ==
    /\ res.fn = "determineQAStatus"
    /\ res.eventName = "pull_request_review"
    /\ res.qaResult = "failure"
    /\ labels \cap QA_LABEL_NAMES = {"qa:running"}
    /\ res.value = "running"

\* C4: the desired status label is the first match of the chain merged,
\* abandoned, draft, approved with QA success, approved, ready-for-review;
\* so a draft without approval and QA pending gives status:draft, and an
\* approved non-draft with QA success gives status:mergeable.
C4_StatusPriorityChain ==
    res.fn = "statusDesiredLabel" =>
        LET in == res.input
            open == ~in.isMerged /\ ~in.isAbandoned /\ ~in.isDraft
        IN /\ in.isMerged => res.value = "status:merged"
           /\ (~in.isMerged /\ in.isAbandoned)
                 => res.value = "status:abandoned"
           /\ (~in.isMerged /\ ~in.isAbandoned /\ in.isDraft)
                 => res.value = "status:draft"
           /\ (open /\ in.hasApproval /\ in.qaStatus = "success")
                 => res.value = "status:mergeable"
           /\ (open /\ in.hasApproval /\ in.qaStatus # "success")
                 => res.value = "status:approved"
           /\ (open /\ ~in.hasApproval)
                 => res.value = "status:ready-for-review"

\* an approved draft with QA success has been given status:draft: the draft
\* test comes before the approval tests
C4_Witness ==
    /\ res.fn = "statusDesiredLabel"
    /\ res.input = [isDraft |-> TRUE, hasApproval |-> TRUE,
                    qaStatus |-> "success", isMerged |-> FALSE,
                    isAbandoned |-> FALSE]
    /\ res.value = "status:draft"

(***************************************************************************)
(* Properties of manageAutoMerge (checked under SpecAutoMerge)             *)
(***************************************************************************)
HasCall(api) == \E i \in DOMAIN calls : calls[i].api = api

AmDone == am.pc = "done"

\* C5: when the fetch of the PR does not fail, the enable mutation is issued
\* exactly when the author is not a Bot, the PR is approved, QA is success
\* and the PR is no draft; for a Bot no call is made at all.
C5_EnableIffMergeable ==
    AmDone =>
        /\ am.input.prAuthorType = "Bot" => calls = <<>>
        /\ ~am.getFailed =>
              (HasCall("enablePullRequestAutoMerge") <=>
                  /\ am.input.prAuthorType # "Bot"
                  /\ am.input.hasApproval
                  /\ am.input.qaStatus = "success"
                  /\ ~am.input.isDraft)

\* the mutation has been issued for an approved, green, non-draft PR of a
\* user, with the method asked for
C5_Witness ==
    /\ AmDone
    /\ am.input.prAuthorType = "User"
    /\ am.input.hasApproval /\ am.input.qaStatus = "success"
    /\ ~am.input.isDraft
    /\ am.input.mergeMethod = "rebase"
    /\ calls = <<Call("pulls.get", ""),
                 Call("enablePullRequestAutoMerge", "REBASE")>>
    /\ autoMerge

\* C6: no invocation issues a call that disables auto-merge, an invocation
\* whose conditions do not hold issues no call, and auto-merge, once
\* enabled, stays enabled through every step of every later invocation.
C6_NeverDisables ==
    /\ [](~HasCall("disablePullRequestAutoMerge"))
    /\ []((AmDone /\ ~(am.input.hasApproval /\ am.input.qaStatus = "success"
                       /\ ~am.input.isDraft)) => calls = <<>>)
    /\ [][autoMerge => autoMerge']_vars

\* with auto-merge enabled, an invocation for a PR that is a draft again
\* has ended and auto-merge is still enabled
C6_Witness ==
    /\ AmDone
    /\ am.input.prAuthorType = "User"
    /\ am.input.isDraft
    /\ am.input.hasApproval
    /\ autoMerge

\* C7: manageAutoMerge always returns normally, whatever error the fetch of
\* the PR or the mutation raises.
C7_NeverRaises ==
    AmDone => am.outcome = "returned"

\* the mutation has failed with a message holding none of the known
\* substrings, and the handler has returned
C7_Witness ==
    /\ AmDone
    /\ HasCall("enablePullRequestAutoMerge")
    /\ am.log = "error"
    /\ am.outcome = "returned"


(***************************************************************************)
(* Properties of the label reconcilers (checked under Spec) and of the     *)
(* three label handlers together (checked under SpecLabels)                *)
(***************************************************************************)
\* a reconciler has returned and none of its calls failed
ReconciledOk ==
    /\ inv.pc = "done"
    /\ inv.op \in {"qa", "status"}
    /\ inv.outcome = "returned"
    /\ ~inv.failed

\* C8: a reconciler that has a desired label and whose calls all succeed
\* leaves that label as the only one of its enumeration on the PR, whatever
\* labels of the enumeration were there, and leaves the other labels alone.
C8_ExactlyTheDesiredLabel ==
    (ReconciledOk /\ inv.desired # "") =>
        /\ labels \cap GroupOf(inv.op) = {inv.desired}
        /\ labels \ GroupOf(inv.op) = inv.outside

\* qa:running and qa:failed were both on the PR, success was asked for: both
\* have been removed and qa:success added
C8_Witness ==
    /\ ReconciledOk
    /\ inv.op = "qa"
    /\ inv.input = "success"
    /\ Len(calls) = 4
    /\ {calls[2], calls[3]} = {Call("issues.removeLabel", "qa:running"),
                               Call("issues.removeLabel", "qa:failed")}
    /\ calls[4] = Call("issues.addLabels", <<"qa:success">>)
    /\ labels = {"qa:success"}

\* C9: a reconciler invoked again with the same inputs, right after an
\* invocation whose calls all succeeded, issues no removeLabel and no
\* addLabels: at most the read of the labels.
C9_SecondRunWritesNothing ==
    inv.repeat =>
        /\ WriteCalls = 0
        /\ inv.pc \in {"list", "done"}
        /\ calls \in {<<>>, <<Call("issues.listLabelsOnIssue", "")>>}

\* the second run of the status reconciler has read the labels and returned
C9_Witness ==
    /\ inv.repeat
    /\ ReconciledOk
    /\ inv.op = "status"
    /\ calls = <<Call("issues.listLabelsOnIssue", "")>>
    /\ labels \cap STATUS_LABEL_NAMES = {inv.desired}

\* no label handler is in the middle of an invocation
BetweenInvocations == inv.pc \in {"idle", "done"}

\* C10 as claimed: after any sequence of successful invocations of the two
\* reconcilers and of analyzePRAndApplyLabels, on a PR that started with at
\* most one label per enumeration, the PR carries at most one QA label, one
\* status label and one conventional-commit type label.
C10_AtMostOnePerEnumeration ==
    BetweenInvocations => AtMostOnePerEnumeration(labels)

\* C10 as amended: the same holds as long as analyzePRAndApplyLabels has not
\* run; once it has, the PR still carries at most one QA label, and at most
\* one status label right after each run of the status reconciler.
C10_Amended ==
    BetweenInvocations =>
        /\ AtMostOne(labels \cap QA_LABEL_NAMES)
        /\ hist.labelerRuns = 0 => AtMostOnePerEnumeration(labels)
        /\ ReconciledOk /\ inv.op = "status"
              => AtMostOne(labels \cap STATUS_LABEL_NAMES)

\* the labeler has left a second type label on the PR, and the status
\* reconciler, run after it, has left a single status label
C10_Witness ==
    /\ hist.labelerRuns = 1
    /\ ReconciledOk
    /\ inv.op = "status"
    /\ Cardinality(labels \cap TYPE_LABEL_NAMES) = 2
    /\ Len(calls) >= 3
    /\ Cardinality(labels \cap STATUS_LABEL_NAMES) = 1
    /\ Cardinality(labels \cap QA_LABEL_NAMES) = 1

(***************************************************************************)
(* Properties of calculateDesiredReactions (checked under SpecPure)        *)
(***************************************************************************)
QaEmoji == {"hourglass_flowing_sand", "runner", "white_check_mark", "x"}

StatusEmoji == {"eyes", "thumbsup", "rocket"}

\* the emoji of the highest-priority qa label of a label set, if any
TopQaEmoji(L) ==
    IF "qa:failed" \in L THEN {"x"}
    ELSE IF "qa:success" \in L THEN {"white_check_mark"}
    ELSE IF "qa:running" \in L THEN {"runner"}
    ELSE IF "qa:pending" \in L THEN {"hourglass_flowing_sand"}
    ELSE {}

\* the emoji of the highest-priority status label of a label set, if any
TopStatusEmoji(L) ==
    IF "status:mergeable" \in L THEN {"rocket"}
    ELSE IF "status:approved" \in L THEN {"thumbsup"}
    ELSE IF "status:ready-for-review" \in L THEN {"eyes"}
    ELSE {}

ReactionsComputed == res.fn = "calculateDesiredReactions"

\* C15: for every label set calculateDesiredReactions returns at most one
\* emoji of the qa group and at most one of the status group; each returned
\* emoji is that of the highest-priority label of its group on the PR (qa:
\* failed > success > running > pending; status: mergeable > approved >
\* ready-for-review); a group with no label on the PR contributes nothing.
C15_OneTopEmojiPerGroup ==
    ReactionsComputed =>
        LET v == Range(res.value)
        IN /\ Len(res.value) = Cardinality(v)
           /\ v \subseteq QaEmoji \cup StatusEmoji
           /\ Cardinality(v \cap QaEmoji) <= 1
           /\ Cardinality(v \cap StatusEmoji) <= 1
           /\ v \cap QaEmoji \subseteq TopQaEmoji(res.labels)
           /\ v \cap StatusEmoji \subseteq TopStatusEmoji(res.labels)

\* two qa labels and two status labels compete: failed and mergeable win
C15_Witness ==
    /\ ReactionsComputed
    /\ ~res.isPRMerged
    /\ res.labels = {"qa:failed", "qa:success", "status:approved",
                     "status:mergeable"}
    /\ res.value = <<"x", "rocket">>

\* C16: calculateDesiredReactions returns no emoji whenever the PR carries
\* status:merged or the pulls API reports it merged, whatever other labels
\* are present.
C16_MergedHasNoReactions ==
    (ReactionsComputed /\ ("status:merged" \in res.labels \/ res.isPRMerged))
        => res.value = <<>>

\* merged by the API only, with a qa and a status label on the PR
C16_Witness ==
    /\ ReactionsComputed
    /\ res.isPRMerged
    /\ res.labels = {"qa:success", "status:approved"}
    /\ res.value = <<>>

\* C17: when the labels hold qa:running or qa:pending and the PR is not
\* merged, calculateDesiredReactions returns emoji of the qa group only,
\* even with status-group labels present.
C17_InProgressShowsQaOnly ==
    (/\ ReactionsComputed
     /\ ~res.isPRMerged
     /\ "status:merged" \notin res.labels
     /\ res.labels \cap {"qa:running", "qa:pending"} # {})
        => Range(res.value) \subseteq QaEmoji

\* qa:pending next to status:approved: the hourglass alone is returned
C17_Witness ==
    /\ ReactionsComputed
    /\ ~res.isPRMerged
    /\ res.labels = {"qa:pending", "status:approved"}
    /\ res.value = <<"hourglass_flowing_sand">>

(***************************************************************************)
(* The resolver's status given to the QA reconciler (checked under Spec)   *)
(***************************************************************************)
\* C19: when the qaStatus of determineQAStatus is the status given to
\* updateBuildStatusLabel, then for each of pending, running, success and
\* failed a run whose calls all succeed leaves qa:<status> as the only QA
\* label of the PR.
C19_ResolverStatusBecomesLabel ==
    (ReconciledOk /\ inv.op = "qa" /\ inv.input \in QaStatuses)
        => labels \cap QA_LABEL_NAMES = {QaLabelOf(inv.input)}

(***************************************************************************)
(* Properties of the title analysis (checked under SpecPure)               *)
(***************************************************************************)
\* the title begins with chore(deps):, fix(deps): or build(deps):
StartsWithDepsPrefix(title) ==
    \E w \in {W.chore, W.fix, W.build} : HasAt(title, 1, w \o W.deps)

\* C20: for every title that begins with chore(deps):, fix(deps): or
\* build(deps): the labels computed from the title include dependencies and
\* no conventional-commit type label; with a body that does not announce a
\* breaking change, dependencies is the only label computed from it.
C20_DepsTitleGetsDependenciesOnly ==
    (res.fn = "titleLabels" /\ StartsWithDepsPrefix(res.title)) =>
        /\ "dependencies" \in Range(res.value)
        /\ Range(res.value) \cap TYPE_LABEL_NAMES = {}
        /\ ~Includes(res.body, W.breaking) => res.value = <<"dependencies">>

\* fix(deps): has been analysed and gave dependencies, not fix
C20_Witness ==
    /\ res.fn = "titleLabels"
    /\ res.title = W.fix \o W.deps \o W.sp \o <<"u">>
    /\ res.body = <<>>
    /\ res.value = <<"dependencies">>

\* the type word of TypeWords[k] followed by tail, with or without a
\* parenthesised scope in between; a scope is text of one line
HasTypePrefix(title, k, tail) ==
    LET w == TypeWords[k].w
    IN \/ HasAt(title, 1, w \o tail)
       \/ /\ HasAt(title, 1, w \o <<"(">>)
          /\ \E q \in (Len(w) + 3)..Len(title) :
               /\ HasAt(title, q, <<")">> \o tail)
               /\ \A i \in (Len(w) + 2)..(q - 1) :
                      title[i] \notin {"\n", "\r", "<U+2028>",
                                        "<U+2029>"}

\* C21: for every title whose conventional-commit prefix (a type, optionally
\* followed by a parenthesised scope) has a trailing ! before the colon, the
\* labels computed from the title hold both the label of that type and
\* breaking; feat!: n gives feat and breaking.
C21_BangGivesTypeAndBreaking ==
    res.fn = "titleLabels" =>
        \A k \in DOMAIN TypeWords :
            HasTypePrefix(res.title, k, <<"!", ":">>) =>
                {TypeWords[k].name, "breaking"} \subseteq Range(res.value)

\* the label kinds of which the title analysis pushes one
KindLabels == TYPE_LABEL_NAMES \cup {"dependencies"}

\* C22: for every title the analysis computes exactly one label among
\* dependencies, the ten types and chore: for a title the dependency pattern
\* does not match, the type of a prefix type: or type(scope):, and chore
\* when neither the dependency pattern nor the type pattern matches.
C22_ExactlyOneKindLabel ==
    res.fn = "titleLabels" =>
        /\ Cardinality({i \in DOMAIN res.value :
                           res.value[i] \in KindLabels}) = 1
        /\ \A k \in DOMAIN TypeWords :
              (HasTypePrefix(res.title, k, <<":">>)
                  /\ ~StartsWithDepsPrefix(res.title)) =>
                  TypeWords[k].name \in Range(res.value)
        /\ ((\A k \in DOMAIN TypeWords :
                  ~HasTypePrefix(res.title, k, <<":">>))
               /\ ~StartsWithDepsPrefix(res.title)) =>
                  "chore" \in Range(res.value)

\* fix(a): y has been analysed and gave fix alone
C22_Witness ==
    /\ res.fn = "titleLabels"
    /\ res.body = <<>>
    /\ res.title = W.fix \o <<"(", "a", ")", ":">> \o W.sp \o <<"y">>
    /\ res.value = <<"fix">>

(***************************************************************************)
(* Properties of concurrent label reconcilers (checked under SpecConc)     *)
(***************************************************************************)
\* two invocations of the same reconciler with different desired labels
\* have both returned
BothReconciled ==
    /\ inv.pc = "done" /\ sched.other.pc = "done"
    /\ inv.op = sched.other.op
    /\ inv.desired # "" /\ sched.other.desired # ""
    /\ inv.desired # sched.other.desired

\* the reconciler that issued the last label write, 0 when none wrote
LastWriter == IF WroteSinceResume THEN sched.me ELSE sched.lastWriter

\* C24: when two concurrent invocations of a label reconciler with
\* different desired labels have both ended, whatever the interleaving of
\* their calls, the labels of the group on the PR are exactly the desired
\* label of the invocation that wrote last.
C24_LastWriterWins ==
    (BothReconciled /\ LastWriter # 0) =>
        labels \cap GroupOf(inv.op) =
            {IF LastWriter = sched.me THEN inv.desired
             ELSE sched.other.desired}

(***************************************************************************)
(* Properties of the ensure-labels-exist operations (checked under         *)
(* SpecEnsure)                                                             *)
(***************************************************************************)
\* the calls the ended operation made for the label, as records
EnsureCallsFor(label) ==
    {ens.calls[i] : i \in {j \in DOMAIN ens.calls :
                               ens.calls[j].name = label.name}}

\* the number of calls the ended operation made for the label
EnsureCallCount(label) ==
    Cardinality({j \in DOMAIN ens.calls : ens.calls[j].name = label.name})

\* the operation has gone through its whole table
EnsureDone == ens.pc = "done" /\ ens.outcome = "returned"

\* what the operation has done is what its table and the repository it
\* found require
EnsuredAsRequired ==
    EnsureDone =>
        \A label \in Range(ens.table) :
            LET found == {l \in ens.existing : l.name = label.name}
                made == {c.api : c \in EnsureCallsFor(label)}
            IN /\ EnsureCallCount(label) <= 1
               /\ "issues.createLabel" \in made <=> found = {}
               /\ "issues.updateLabel" \in made <=>
                      (found # {} /\ found # {label})
               /\ made \subseteq {"issues.createLabel", "issues.updateLabel"}
               /\ (\E c \in EnsureCallsFor(label) : c.ok) => label \in repo

\* C23: an ensure-labels-exist operation creates each label of its table
\* iff the repository lacks it, updates it iff the repository has it with
\* another colour or description, and makes no call for it otherwise; it
\* never deletes a label; a failed create or update does not stop the calls
\* for the remaining labels, and every label whose call succeeded has the
\* colour and the description of the table.
C23_EnsureCreatesUpdatesNeverDeletes ==
    /\ []EnsuredAsRequired
    /\ [][\A l \in repo : \E m \in repo' : m.name = l.name]_vars

\* the operation of the PR labeler has ended; its createLabel for one label
\* failed and a later updateLabel for another label succeeded
C23_Witness ==
    /\ EnsureDone
    /\ ens.table = LABEL_DEFINITIONS
    /\ \E i, j \in DOMAIN ens.calls :
          /\ i < j
          /\ ens.calls[i].api = "issues.createLabel" /\ ~ens.calls[i].ok
          /\ ens.calls[j].api = "issues.updateLabel" /\ ens.calls[j].ok

(***************************************************************************)
(* Properties of the Slack notifier (checked under SpecSlack, and under    *)
(* SpecRace for concurrent invocations)                                    *)
(***************************************************************************)
\* the invocation of p has called the API api
NCalled(p, api) == \E c \in np[p].calls : c.api = api

SlackApis == {"chat.postMessage", "chat.update", "conversations.history",
              "reactions.add", "reactions.remove"}

\* the invocation of p has called Slack
CalledSlack(p) == \E c \in np[p].calls : c.api \in SlackApis

\* the invocation of p has read the comments and found no ts in them
NoTsRecorded(p) == np[p].foundTs = Null

\* the invocation of p has entered first-message creation
EntersCreation(p) ==
    \/ np[p].pc = "issues.createComment"
    \/ NCalled(p, "issues.createComment")

\* C11: under every interleaving of two or more concurrent invocations of
\* the notifier for one PR, each started while no slack-ts marker comment
\* exists, at most one invocation calls chat.postMessage; every other
\* invocation ends having deleted its own lock comment and holding the ts
\* of the winner.
C11_OneWriterWins ==
    /\ Cardinality({p \in Notifiers : NCalled(p, "chat.postMessage")}) <= 1
    /\ \A p \in Notifiers :
          (/\ np[p].pc = "done"
           /\ np[p].lockId # 0
           /\ ~NCalled(p, "chat.postMessage"))
             => /\ \A k \in DOMAIN comments.list :
                      comments.list[k].id # np[p].lockId
                /\ slack.posted # <<>>
                /\ np[p].slackTs = slack.posted[1]

\* C12: every invocation with credentials that finds a recorded ts in a
\* marker comment calls chat.update with exactly that ts and never calls
\* chat.postMessage.
C12_RecordedTsIsUpdated ==
    \A p \in Notifiers :
        (np[p].pc = "done" /\ np[p].foundTs \notin {Null, Undefined})
            => /\ Call("chat.update", np[p].foundTs) \in np[p].calls
               /\ ~NCalled(p, "chat.postMessage")

\* C13 as claimed: with no ts recorded the notifier creates no lock comment
\* and makes no Slack call if the author type is Bot, or the PR carries
\* status:draft, or the PR is merged or closed (abandoned); in every other
\* case it proceeds to first-message creation.
C13_SkipsBotDraftMergedClosed ==
    \A p \in Notifiers :
        NoTsRecorded(p) =>
            IF \/ env.authorType = "Bot"
               \/ "status:draft" \in np[p].labels
               \/ "status:merged" \in np[p].labels
               \/ np[p].isPRMerged
               \/ env.isAbandoned
            THEN ~EntersCreation(p) /\ ~CalledSlack(p)
            ELSE EntersCreation(p)

\* C13 as amended: the same with the closed PR left out: with no ts
\* recorded the notifier creates no lock comment and makes no Slack call if
\* the author type is Bot, or the PR carries status:draft, or it carries
\* status:merged or pulls.get reports it merged; in every other case, that
\* of a closed PR that was not merged included, it proceeds to
\* first-message creation.
C13_Amended ==
    \A p \in Notifiers :
        NoTsRecorded(p) =>
            IF \/ env.authorType = "Bot"
               \/ "status:draft" \in np[p].labels
               \/ "status:merged" \in np[p].labels
               \/ np[p].isPRMerged
            THEN ~EntersCreation(p) /\ ~CalledSlack(p)
            ELSE EntersCreation(p)

\* an abandoned PR without a message has got its lock comment and its
\* message, posted in the rendering of an abandoned PR
C13_Witness ==
    /\ env.isAbandoned
    /\ NoTsRecorded("n1")
    /\ NCalled("n1", "issues.createComment")
    /\ slack.posted # <<>>
    /\ slack.content[slack.posted[1]].kind = "abandoned"

\* C14: without the Slack token or the channel id the notifier returns
\* normally and calls neither GitHub nor Slack; an error whose message
\* contains not_authed, whatever step it comes from, makes the notifier
\* return normally, never raise.
C14_NoCredentialsNoCallsNotAuthedSwallowed ==
    \A p \in Notifiers :
        /\ (np[p].pc # "idle" /\ ~(env.token /\ env.channel))
              => /\ np[p].pc = "done"
                 /\ np[p].outcome = "returned"
                 /\ np[p].calls = {}
                 /\ comments.nextId <= 2
                 /\ slack.posted = <<>>
        /\ np[p].caught = "not_authed" => np[p].outcome = "returned"
        /\ np[p].outcome = "raised" => np[p].caught \notin {Null, "not_authed"}

\* chat.postMessage was answered not_authed on all four attempts and the
\* notifier returned
C14_Witness ==
    /\ np["n1"].caught = "not_authed"
    /\ np["n1"].attempt = slackApiMaxRetries
    /\ np["n1"].pc = "done"
    /\ np["n1"].outcome = "returned"
    /\ Call("chat.postMessage", Null) \in np["n1"].calls

\* the emoji the notifier manages
ManagedVocabulary == {"hourglass_flowing_sand", "runner", "white_check_mark",
                      "x", "eyes", "thumbsup", "rocket"}

\* the reactions on the messages whose name is not in the vocabulary
ForeignReactions == {q \in slack.reactions : q.name \notin ManagedVocabulary}

\* C18: every reactions.add and reactions.remove call of the notifier, in
\* the delta pass and in the full reset, names an emoji of the managed
\* vocabulary, and no step changes the reactions of any other name.
C18_OnlyManagedReactionsTouched ==
    /\ [](\A p \in Notifiers : \A c \in np[p].calls :
             c.api \in {"reactions.add", "reactions.remove"}
                => c.arg \in ManagedVocabulary)
    /\ [][ForeignReactions' = ForeignReactions]_vars

\* a human's thumbsup and tada are on the message of a PR with qa:running:
\* the delta pass and the full reset have run, runner is there, and both
\* reactions of the human are still there
C18_Witness ==
    /\ np["n1"].pc = "done"
    /\ Call("reactions.remove", "thumbsup") \in np["n1"].calls
    /\ Call("reactions.remove", "runner") \in np["n1"].calls
    /\ Call("reactions.add", "runner") \in np["n1"].calls
    /\ slack.reactions =
          {[ts |-> ExistingTs, name |-> "thumbsup", user |-> "human"],
           [ts |-> ExistingTs, name |-> "tada", user |-> "human"],
           [ts |-> ExistingTs, name |-> "runner", user |-> "bot"]}

\* the invocation of p created a lock comment and called chat.postMessage,
\* which raised: the error went to the catch of the notifier before any
\* issues.updateComment
PostRaised(p) ==
    /\ np[p].pc = "done"
    /\ np[p].caught # Null
    /\ NCalled(p, "issues.createComment")
    /\ NCalled(p, "chat.postMessage")
    /\ ~NCalled(p, "issues.updateComment")

\* C25: when chat.postMessage for the first message raises after its
\* retries, the invocation deletes the lock comment it created: once the
\* invocation has ended, no comment with the body of the lock marker is left
\* on the PR.
C25_FailedPostLeavesNoLock ==
    PostRaised("n1") =>
        \A k \in DOMAIN comments.list : comments.list[k].body # LockBody

(***************************************************************************)
(* Properties of the reaction reconciliation (checked under SpecTwice for  *)
(* two invocations in a row, under SpecSlack for one with failures)        *)
(***************************************************************************)
\* the names of the reactions on the message ts, whoever put them
ReactionsOn(ts) == {q.name : q \in {x \in slack.reactions : x.ts = ts}}

\* nobody but the bot has put a managed reaction on a message: then no
\* reactions.remove is answered no_reaction
OnlyBotManages ==
    \A q \in slack.reactions :
        q.name \in allStatusReactions => q.user = "bot"

\* the invocation of p has ended after a reaction pass on a message that
\* exists
Reconciled(p) ==
    /\ np[p].pc = "done"
    /\ np[p].slackTs # Null
    /\ NCalled(p, "conversations.history")
    /\ slack.content[np[p].slackTs].kind # "none"

\* C26: after an invocation in which the message exists and every Slack
\* call succeeds, with no other writer, the managed reactions on the message
\* are the desired ones (none for a merged PR), and a following invocation
\* with the same labels calls neither reactions.add nor reactions.remove.
C26_ReactionsReachFixedPoint ==
    (Reconciled("n1") /\ OnlyBotManages) =>
        /\ ReactionsOn(np["n1"].slackTs) \cap allStatusReactions =
              Range(calculateDesiredReactions(labels, env.merged))
        /\ ("status:merged" \in labels \/ env.merged) =>
              ReactionsOn(np["n1"].slackTs) \cap allStatusReactions = {}
        /\ ~NCalled("n2", "reactions.add")
        /\ ~NCalled("n2", "reactions.remove")

\* the first invocation has removed and added reactions, the second one has
\* fetched the message and ended
C26_Witness ==
    /\ Reconciled("n1") /\ OnlyBotManages
    /\ NCalled("n1", "reactions.remove") /\ NCalled("n1", "reactions.add")
    /\ Reconciled("n2")

\* no message carries two managed reactions of one exclusivity group
OnePerGroup ==
    \A ts \in DOMAIN slack.content, k \in DOMAIN GroupNames :
        Cardinality(ReactionsOn(ts)
                    \cap Range(exclusiveGroups(GroupNames[k]))) <= 1

\* C27: in the delta pass every reactions.remove call is issued before any
\* reactions.add call: the additions begin when nothing is left to remove
\* and no removal follows an addition; so, from a message with at most one
\* managed reaction per exclusivity group and with every call succeeding,
\* no state of the message has two managed reactions of one group.
C27_RemoveBeforeAdd ==
    /\ [](\A p \in Notifiers : np[p].pc = "add" => np[p].toRemove = {})
    /\ [][\A p \in Notifiers : np[p].pc = "add" => np'[p].pc # "remove"]_vars
    /\ (OnePerGroup /\ OnlyBotManages) => []OnePerGroup

\* the delta pass has removed x and is about to add runner, of the same
\* group
C27_Witness ==
    /\ np["n1"].pc = "add"
    /\ Call("reactions.remove", "x") \in np["n1"].calls
    /\ np["n1"].toAdd = <<"runner">>
    /\ OnlyBotManages
    /\ ReactionsOn(np["n1"].slackTs) \cap allStatusReactions = {}

\* C28: an invocation that leaves the delta pass, in which it attempted a
\* reactions.remove or reactions.add call (tolerated no_reaction and
\* already_reacted answers included), goes on to the re-fetch of
\* verifySanity; and the re-fetch is reached from the delta pass only, so
\* never after an empty delta.
C28_AttemptedChangeIsVerified ==
    [][\A p \in Notifiers :
          /\ (np[p].pc \in {"remove", "add"}
                 /\ np'[p].pc \notin {"remove", "add"})
                => np'[p].pc = "verify"
          /\ np'[p].pc = "verify" => np[p].pc \in {"remove", "add", "verify"}]_vars

\* the position of an invocation in the reconciliation of the reactions
ReconcileRank(pc) ==
    CASE pc = "history" -> 1
      [] pc = "remove" -> 2
      [] pc = "add" -> 3
      [] pc = "verify" -> 4
      [] pc = "resetRemove" -> 5
      [] pc = "resetAdd" -> 6
      [] pc = "done" -> 7
      [] OTHER -> 0

\* C29: the reconciliation of the reactions never goes back: a step at the
\* re-fetch or in the full reset either tries the same slackApi call again,
\* finishes one reaction of the reset, or moves on; so there is one
\* re-fetch and one reset at most, after the reset the invocation ends
\* whatever the reactions are, and every invocation ends.
C29_VerifyOnceResetOnce ==
    /\ [][\A p \in Notifiers :
             /\ ReconcileRank(np'[p].pc) >= ReconcileRank(np[p].pc)
             /\ (np[p].pc \in {"verify", "resetRemove", "resetAdd"}
                    /\ np'[p] # np[p])
                   => \/ ReconcileRank(np'[p].pc) > ReconcileRank(np[p].pc)
                      \/ np'[p].attempt = np[p].attempt + 1
                      \/ /\ np'[p].toRemove \subseteq np[p].toRemove
                         /\ Len(np'[p].toAdd) <= Len(np[p].toAdd)
                         /\ <<np'[p].toRemove, np'[p].toAdd>>
                               # <<np[p].toRemove, np[p].toAdd>>]_vars
    /\ <>(np["n1"].pc = "done")

\* the full reset has run (it removed runner, which is desired) and the
\* invocation has ended although the managed reactions differ from the
\* desired ones
C29_Witness ==
    /\ np["n1"].pc = "done"
    /\ "runner" \in Range(np["n1"].desired)
    /\ Call("reactions.remove", "runner") \in np["n1"].calls
    /\ managedReactions(ReactionsOn(np["n1"].slackTs))
          # Range(np["n1"].desired)

\* C30: a slackApi call makes 4 attempts at most: the attempts of a call
\* are counted one by one up to slackApiMaxRetries, the count starts again
\* only with the next call, and an error of a kind that is tried again
\* (network failure, rate_limited, any other data.error) is raised by
\* chat.postMessage or chat.update only when the third retry has failed.
C30_SlackApiFourAttempts ==
    /\ [](\A p \in Notifiers : np[p].attempt \in 0..slackApiMaxRetries)
    /\ [][\A p \in Notifiers :
             /\ np'[p].attempt # np[p].attempt
                   => \/ np'[p].attempt = 0
                      \/ /\ np'[p].attempt = np[p].attempt + 1
                         /\ np'[p].pc = np[p].pc
             /\ (np[p].pc = "send" /\ np'[p].pc = "done"
                    /\ np'[p].caught \in SlackErrors
                    /\ np'[p].caught \notin
                          FatalSlackErrors \cup {"Unexpected token"})
                   => np[p].attempt = slackApiMaxRetries]_vars

\* chat.postMessage was answered rate_limited four times and the error
\* was raised
C30_Witness ==
    /\ np["n1"].pc = "done"
    /\ np["n1"].caught = "rate_limited"
    /\ np["n1"].attempt = slackApiMaxRetries
    /\ Call("chat.postMessage", Null) \in np["n1"].calls

\* C31: an attempt of slackApi that is answered missing_scope,
\* not_in_channel or channel_not_found is the last attempt of the call,
\* whatever the number of the attempt: the step of such an answer never
\* counts one more attempt, and on chat.postMessage or chat.update the
\* error is raised at once.
C31_FatalErrorsNotRetried ==
    [][\A p \in Notifiers, name \in ReactionNames \cup {Null},
          error \in FatalSlackErrors, transient \in BOOLEAN :
          SlackFail(p, name, error, transient)
            => /\ ~(np'[p].pc = np[p].pc
                      /\ np'[p].attempt = np[p].attempt + 1)
               /\ np[p].pc = "send"
                     => np'[p].pc = "done" /\ np'[p].caught = error]_vars

\* chat.update was answered channel_not_found at the first attempt and
\* the error was raised
C31_Witness ==
    /\ np["n1"].pc = "done"
    /\ np["n1"].caught = "channel_not_found"
    /\ np["n1"].attempt = 0
    /\ Call("chat.update", ExistingTs) \in np["n1"].calls

\* C32: while Slack answers invalid_blocks, the full blocks are submitted
\* to the Slack API 3 times at most (the first attempt and 2 retries)
\* before the fallback is sent, and the fallback is the text-and-button
\* rendering for an active pull request and the same blocks for a merged
\* or abandoned one.
C32_FullPayloadThreeTimes ==
    [](\A p \in Notifiers :
          /\ (np[p].pc = "send" /\ ~np[p].fallback)
                => np[p].retryCount * (slackApiMaxRetries + 1) + np[p].attempt
                     <= sendMessageMaxRetries + 1
          /\ np[p].fallback
                => messageBlocks(np[p].labels, np[p].isPRMerged,
                                 env.isAbandoned, TRUE).fallback
                     = ~("status:merged" \in np[p].labels
                           \/ np[p].isPRMerged \/ env.isAbandoned))

\* the step is an attempt of chat.postMessage or chat.update that fails
\* with error and after which slackApi throws
SendRaises(p, error) ==
    /\ np[p].pc = "send"
    /\ \E transient \in BOOLEAN : SlackFail(p, Null, error, transient)
    /\ ~(np'[p].pc = "send" /\ np'[p].attempt = np[p].attempt + 1)

\* the invocation of p has re-raised error
Reraised(p, error) ==
    /\ np'[p].pc = "done"
    /\ np'[p].outcome = "raised"
    /\ np'[p].caught = error

\* C33 as stated: every error without not_authed that a GitHub call of the
\* notifier or chat.postMessage / chat.update raises is re-raised by the
\* notifier.
C33_EveryErrorReraised ==
    [][\A p \in Notifiers :
          /\ GithubFail(p, "Not Found") => Reraised(p, "Not Found")
          /\ \A error \in SlackErrors \ {"not_authed"} :
                SendRaises(p, error) => Reraised(p, error)]_vars

\* C33 (amended): an error without not_authed is re-raised by the notifier
\* when it is raised by a GitHub call other than pulls.get and the deletion
\* of the lock comment after a post without ts, or by chat.postMessage or
\* chat.update unless it is an invalid_blocks answer to the full blocks.
C33_Amended ==
    [][\A p \in Notifiers :
          /\ (GithubFail(p, "Not Found")
                 /\ np[p].pc \notin {"pulls.get", "cleanup"})
                => Reraised(p, "Not Found")
          /\ \A error \in SlackErrors \ {"not_authed"} :
                (SendRaises(p, error)
                   /\ ~(error = "invalid_blocks" /\ ~np[p].fallback))
                  => Reraised(p, error)]_vars

\* the update of the lock comment with the ts of the new message failed
\* and the error was re-raised
C33_Witness ==
    /\ np["n1"].pc = "done"
    /\ np["n1"].outcome = "raised"
    /\ np["n1"].caught = "Not Found"
    /\ Call("issues.updateComment", "") \in np["n1"].calls

\* C34: the QA label reconciler, the status label reconciler and the
\* labeler return normally whichever of their GitHub calls fails, the read
\* of the labels or of the pull request and the batched issues.addLabels
\* included: no invocation ends by raising.
C34_NoRaiseOutsideSlack ==
    inv.pc = "done" => inv.outcome = "returned"

\* the current invocation has issued the call api with the argument arg
HasCalled(api, arg) ==
    \E i \in DOMAIN calls : calls[i].api = api /\ calls[i].arg = arg

\* C35: a reconciler that has read the labels and gone on to its writes
\* returns without raising, and then every label of its enumeration that
\* is still on the PR besides the desired one has had its removeLabel call,
\* and if the desired label is not on the PR its addLabels call was made:
\* a failed removal stops neither the other removals nor the addition.
C35_PartialFailureIsolated ==
    (inv.pc = "done" /\ inv.op \in {"qa", "status"} /\ Len(calls) >= 2)
        => /\ inv.outcome = "returned"
           /\ \A l \in (labels \cap GroupOf(inv.op)) \ {inv.desired} :
                 HasCalled("issues.removeLabel", l)
           /\ inv.desired \notin labels
                 => HasCalled("issues.addLabels", <<inv.desired>>)

\* the removal of qa:running failed; qa:failed was removed all the same and
\* qa:success added
C35_Witness ==
    /\ inv.pc = "done"
    /\ inv.op = "qa"
    /\ inv.failed
    /\ Len(calls) = 4
    /\ calls[2] = Call("issues.removeLabel", "qa:running")
    /\ calls[3] = Call("issues.removeLabel", "qa:failed")
    /\ calls[4] = Call("issues.addLabels", <<"qa:success">>)
    /\ labels \cap QA_LABEL_NAMES = {"qa:running", "qa:success"}

\* C36: an invocation that has got as far as the reactions, which is after
\* the message was created or updated, ends by returning, and no error has
\* reached the catch of the notifier: whatever error conversations.history,
\* reactions.remove or reactions.add raise, in the delta pass, in the
\* verification or in the reset.
C36_ReactionErrorsStayInside ==
    \A p \in Notifiers :
        (np[p].pc = "done"
           /\ Call("conversations.history", np[p].slackTs) \in np[p].calls)
          => np[p].outcome = "returned" /\ np[p].caught = Null

\* conversations.history failed after chat.update: the reaction of
\* qa:running was never put, and the invocation has returned
C36_Witness ==
    /\ np["n1"].pc = "done"
    /\ np["n1"].outcome = "returned"
    /\ hist.failures = 1
    /\ "qa:running" \in np["n1"].labels
    /\ np["n1"].calls \cap {Call("reactions.add", "runner"),
                             Call("conversations.history", ExistingTs)}
          = {Call("conversations.history", ExistingTs)}
    /\ "runner" \notin ReactionsOn(ExistingTs)

\* the first label of order that is in labelNames, Null if none is
FirstOf(order, labelNames) ==
    LET hits == {k \in DOMAIN order : order[k] \in labelNames}
    IN IF hits = {} THEN Null
       ELSE order[CHOOSE k \in hits : \A j \in hits : k <= j]

\* C37: on a pull_request_review event determineQAStatus answers with the
\* first of success, failed, running, pending whose QA label is on the PR
\* (pending without any), while the QA emoji of calculateDesiredReactions
\* is that of the first of qa:failed, qa:success, qa:running, qa:pending
\* among the labels: for a PR with qa:success and qa:failed the resolver
\* says success and the emoji is x.
C37_TwoPriorityOrders ==
    /\ (res.fn = "determineQAStatus"
          /\ res.eventName = "pull_request_review")
         => LET f == FirstOf(<<"qa:success", "qa:failed", "qa:running",
                               "qa:pending">>, labels)
            IN res.value = CASE f = "qa:success" -> "success"
                             [] f = "qa:failed" -> "failed"
                             [] f = "qa:running" -> "running"
                             [] OTHER -> "pending"
    /\ (res.fn = "calculateDesiredReactions"
          /\ ~res.isPRMerged /\ "status:merged" \notin res.labels)
         => LET f == FirstOf(<<"qa:failed", "qa:success", "qa:running",
                               "qa:pending">>, res.labels)
            IN /\ Range(res.value) \cap Range(exclusiveGroups("qa"))
                    = IF f = Null THEN {} ELSE {statusReactions(f)}
               /\ {"qa:success", "qa:failed"} \subseteq res.labels
                    => /\ "x" \in Range(res.value)
                       /\ determineQAStatus("pull_request_review", "", "",
                                            res.labels) = "success"

\* calculateDesiredReactions was applied to qa:success, qa:failed and
\* status:approved: x and thumbsup, where the resolver says success
C37_Witness ==
    /\ res.fn = "calculateDesiredReactions"
    /\ res.labels = {"qa:success", "qa:failed", "status:approved"}
    /\ ~res.isPRMerged
    /\ res.value = <<"x", "thumbsup">>
    /\ qaStatusFromLabels(res.labels) = "success"

\* the tables of the three ensure-labels-exist operations
LabelTables == {QA_LABELS, STATUS_LABELS, LABEL_DEFINITIONS}

\* C38: a label that two of the tables define has the same colour and
\* description in both; so an operation that is run again after a run of
\* its own with every call successful makes no create and no update call,
\* whichever operations have run in between, and once the three of them
\* have run successfully no run of any of them changes the repository.
C38_TablesAgreeFixedPoint ==
    /\ [](\A S, T \in LabelTables : \A i \in DOMAIN S, j \in DOMAIN T :
             S[i].name = T[j].name => S[i] = T[j])
    /\ [][(ens'.runs = ens.runs + 1 /\ ens'.outcome # "raised"
             /\ (ens'.table \in ens.ensured \/ ens.ensured = LabelTables))
            => /\ ens'.pc = "done"
               /\ Len(ens'.calls) = 1
               /\ repo' = repo]_vars

\* the three operations have run with every call successful, and a fourth
\* run has made no call but the read of the labels
C38_Witness ==
    /\ ens.ensured = LabelTables
    /\ ens.runs = 4
    /\ ens.pc = "done"
    /\ ens.outcome = "returned"
    /\ Len(ens.calls) = 1
    /\ hist.failures = 0
    /\ repo = CanonicalRepo

\* C39: the status line of the full rendering holds at most one token of
\* each of the three groups of labels (status, priority, category).
C39_OneTokenPerGroup ==
    res.fn = "statusTexts" =>
        \A g \in DOMAIN statusTextTables :
            Cardinality({i \in DOMAIN res.value :
                            \E k \in DOMAIN statusTextTables[g] :
                                res.value[i] = statusTextTables[g][k].text})
              <= 1

====
